---- MODULE Spec2Model ----
(***************************************************************************)
(* State-machine model of mango's chapter acquisition pipeline.            *)
(*                                                                         *)
(* downloader.FetchChapter (src/downloader/downloader.go) is modelled at   *)
(* the granularity of its channel operations: the launching loop, one page *)
(* worker goroutine per page, the goroutine that waits on the WaitGroup    *)
(* and closes the channels, the collecting select loop and the draining    *)
(* range loop (Spec, SpecBig).                                             *)
(*                                                                         *)
(* The packer (ArchiveCBZ, ArchiveMultipleChapters, GetCBZFilename,        *)
(* sanitizeFilename) and the converter's single conversions are modelled   *)
(* as calls on a file system (SpecPacker); strings are sequences of        *)
(* one-character strings and chapter numbers are counted in quarters.      *)
(*                                                                         *)
(* The download loop of fetchChapterRange (src/main.go) runs FetchChapter  *)
(* once per selected chapter (SpecMain).                                   *)
(***************************************************************************)
EXTENDS Integers, Sequences, FiniteSets, TLC

\* ------------------------------------------------------------------ bounds
\* largest chapter (number of pages) explored
MaxPages == 3
\* pages beyond the admission limit in the large chapter
Overflow == 1

\* ------------------------------------------------------- program constants
\* guard := make(chan struct{}, 5)
GuardCap == 5
\* errChan := make(chan error, 1)
ErrChanCap == 1

\* ------------------------------------------------------------------ state
VARIABLES
    pages,        \* chapter.Pages: sequence of page numbers (Page.Number)
    failing,      \* page indexes whose URL the server does not serve
    mpc,          \* position of the goroutine running FetchChapter
    next,         \* index of the next page the launching loop will start
    wpc,          \* position of the worker goroutine of each page index
    cpc,          \* position of the wg.Wait / close goroutine
    guard,        \* number of tokens held in the guard channel
    wg,           \* WaitGroup counter
    errChan,      \* buffered error channel (capacity 1)
    fileChan,     \* buffered file channel (capacity len(chapter.Pages))
    fileClosed,   \* fileChan has been closed
    done,         \* done has been closed
    files,        \* the files slice of the collecting goroutine
    downloadErr,  \* the downloadErr variable
    ret,          \* what FetchChapter returned
    fetchRes,     \* history: outcome of FetchFile for each page index
    cbActive,     \* history: page indexes whose onprogress call is executing
    cbCount,      \* history: onprogress invocations made for each page index
    cbErrCount,   \* history: onprogress invocations made with a non-nil error
    firstErr,     \* history: first error ever placed in errChan
    collected,    \* history: page numbers in the order they were appended to files
    disk,         \* the file system: existing directories and files
    call,         \* the packer / converter call made: its name and arguments
    result,       \* what that call returned
    batch,        \* fetchChapterRange: selected chapters, loop position, results
    conv          \* ConvertMultiple / ConvertCBZToMultipleFormats: goroutines, results

\* the state outside FetchChapter
restVars == <<disk, call, result, batch, conv>>

vars == <<pages, failing, mpc, next, wpc, cpc, guard, wg, errChan, fileChan, fileClosed,
          done, files, downloadErr, ret, fetchRes, cbActive, cbCount,
          cbErrCount, firstErr, collected, restVars>>

\* page indexes (the larger of the two chapter sizes explored)
MaxIdx == IF MaxPages > GuardCap + Overflow THEN MaxPages ELSE GuardCap + Overflow
Idx == 1..MaxIdx

\* ------------------------------------------------------------------ values
\* the nil error
NoError == [page |-> 0, cause |-> 0]

\* fmt.Errorf("page %d: %w", page.Number, err): the error of the fetch of
\* page index idx wrapped with the page's number
WrapErr(number, idx) == [page |-> number, cause |-> idx]

\* the body the server returns for the URL of page index idx
BodyOf(idx) == 100 + idx

\* (mutant) the file is numbered by the loop index instead of page.Number
FileByIndex(number, idx) == [Page |-> idx, Data |-> BodyOf(idx)]

\* FetchFile on success: &File{Data: data, Page: page}
File(number, idx) == [Page |-> number, Data |-> BodyOf(idx)]

\* the value FetchChapter has not returned yet
NotReturned == [returned |-> FALSE, nilFiles |-> TRUE, files |-> <<>>, err |-> NoError]

\* (mutant) the empty chapter is rejected: return nil, errors.New(...)
EmptyRejected == [returned |-> TRUE, nilFiles |-> TRUE, files |-> <<>>,
                  err |-> [page |-> 0, cause |-> -1]]

\* return []*File{}, nil
EmptyResult == [returned |-> TRUE, nilFiles |-> FALSE, files |-> <<>>, err |-> NoError]

\* return nil, downloadErr
ErrorResult(e) == [returned |-> TRUE, nilFiles |-> TRUE, files |-> <<>>, err |-> e]

\* return files, nil (named results, err is nil)
FilesResult(fs) == [returned |-> TRUE, nilFiles |-> FALSE, files |-> fs, err |-> NoError]

\* ---------------------------------------------------------------- sorting
\* insertion of f into an ascending list behind every element that is not
\* greater (what a stable sort does with equal keys)
RECURSIVE InsertStable(_, _)
InsertStable(f, s) ==
    IF s = <<>> THEN <<f>>
    ELSE IF f.Page < Head(s).Page THEN <<f>> \o s
    ELSE <<Head(s)>> \o InsertStable(f, Tail(s))

RECURSIVE SortFrom(_, _)
SortFrom(acc, s) ==
    IF s = <<>> THEN acc ELSE SortFrom(InsertStable(Head(s), acc), Tail(s))

\* (mutant) the files are returned in arrival order
Unsorted(fs) == fs

\* sort.SliceStable(files, func(i, j) bool { return files[i].Page < files[j].Page })
SortStable(fs) == SortFrom(<<>>, fs)

\* ---------------------------------------------------------- channel guards
\* (mutant) the launching loop does not wait for a free slot
GuardNeverFull(g) == TRUE

\* guard <- struct{}{} can proceed
GuardCanSend(g) == g < GuardCap

\* the send case of "select { case errChan <- e: ... default: }" can proceed
ErrChanCanSend(ch) == Len(ch) < ErrChanCap

\* ------------------------------------------------------------------- Init
\* the chapters explored: 0..MaxPages pages, numbered in reading order
\* (1..N, as the catalog client numbers them) or in reverse
Chapters ==
    { [i \in 1..n |-> i] : n \in 0..MaxPages } \cup
    { [i \in 1..n |-> n + 1 - i] : n \in 2..MaxPages }

\* the state FetchChapter starts from, for a given chapter and server
Start(ps, fl) ==
    /\ pages = ps
    /\ failing = fl
    /\ mpc = "entry"
    /\ next = 1
    /\ wpc = [i \in Idx |-> "idle"]
    /\ cpc = "none"
    /\ guard = 0
    /\ wg = 0
    /\ errChan = <<>>
    /\ fileChan = <<>>
    /\ fileClosed = FALSE
    /\ done = FALSE
    /\ files = <<>>
    /\ downloadErr = NoError
    /\ ret = NotReturned
    /\ fetchRes = [i \in Idx |-> "none"]
    /\ cbActive = {}
    /\ cbCount = [i \in Idx |-> 0]
    /\ cbErrCount = 0
    /\ firstErr = NoError
    /\ collected = <<>>

\* nothing on disk but the working directory, no packer or converter call made
NoCall == [op |-> "none"]
\* fetchChapterRange is not running
NoBatch == [pc |-> "none"]
\* no concurrent conversion is running
NoConv == [pc |-> "none"]
NoResult == [err |-> "none"]
EmptyDisk == [dirs |-> {"."}, files |-> <<>>]

RestIdle ==
    /\ disk = EmptyDisk
    /\ call = NoCall
    /\ result = NoResult
    /\ batch = NoBatch
    /\ conv = NoConv

Init == \E ps \in Chapters : \E fl \in SUBSET (1..Len(ps)) : Start(ps, fl) /\ RestIdle

\* a chapter larger than the admission limit, on a server that misses two of
\* its pages: an early one and one launched only after a slot was freed
BigChapter == [i \in 1..(GuardCap + Overflow) |-> i]

InitBig == Start(BigChapter, {2, GuardCap + 1}) /\ RestIdle

\* ------------------------------------------------- FetchChapter: main body
\* if len(chapter.Pages) == 0 { return []*File{}, nil }; otherwise the
\* channels are made and the launching loop begins
Enter ==
    /\ mpc = "entry"
    /\ IF Len(pages) = 0
       THEN /\ mpc' = "ret"
            /\ ret' = EmptyResult
       ELSE /\ mpc' = "launch"
            /\ ret' = ret
    /\ UNCHANGED <<restVars, collected, pages, failing, next, wpc, cpc, guard, wg, errChan, fileChan,
                   fileClosed, done, files, downloadErr, fetchRes, cbActive,
                   cbCount, cbErrCount, firstErr>>

\* one iteration of "for i, page := range chapter.Pages":
\* guard <- struct{}{}; wg.Add(1); go func(page, idx) {...}(page, i)
Launch ==
    /\ mpc = "launch"
    /\ next <= Len(pages)
    /\ GuardCanSend(guard)
    /\ guard' = guard + 1
    /\ wg' = wg + 1
    /\ wpc' = [wpc EXCEPT ![next] = "fetch"]
    /\ next' = next + 1
    /\ UNCHANGED <<restVars, collected, pages, failing, mpc, cpc, errChan, fileChan, fileClosed, done,
                   files, downloadErr, ret, fetchRes, cbActive, cbCount,
                   cbErrCount, firstErr>>

\* (mutant) the launching loop is left as soon as a fetch has failed
StartCollectOnFailure ==
    /\ mpc = "launch"
    /\ (next > Len(pages) \/ firstErr # NoError)
    /\ mpc' = "collect"
    /\ cpc' = "wait"
    /\ files' = <<>>
    /\ UNCHANGED <<restVars, collected, pages, failing, next, wpc, guard, wg, errChan, fileChan, fileClosed,
                   done, downloadErr, ret, fetchRes, cbActive, cbCount,
                   cbErrCount, firstErr>>

\* the range loop is over: go func() { wg.Wait(); close(done); close(fileChan) }()
\* and files = make([]*File, 0, len(chapter.Pages)); collecting := true
StartCollect ==
    /\ mpc = "launch"
    /\ next > Len(pages)
    /\ mpc' = "collect"
    /\ cpc' = "wait"
    /\ files' = <<>>
    /\ UNCHANGED <<restVars, collected, pages, failing, next, wpc, guard, wg, errChan, fileChan, fileClosed,
                   done, downloadErr, ret, fetchRes, cbActive, cbCount,
                   cbErrCount, firstErr>>

\* ----------------------------------------------------- page worker goroutine
\* Steps that touch nothing another goroutine reads (FetchFile returning, the
\* return of onprogress) are taken together with the channel operation that
\* follows them in the same goroutine; "<-guard" and the deferred wg.Done()
\* only enable other goroutines and are taken together as the worker's exit.

\* <-guard; return (defer wg.Done())
ReleaseAndExit(i) ==
    /\ guard > 0
    /\ guard' = guard - 1
    /\ wg' = wg - 1
    /\ wpc' = [wpc EXCEPT ![i] = "done"]

\* FetchFile returns a file: fileChan <- file (the channel has room for every
\* page); the worker is then about to call onprogress(1, idx, nil)
FetchOk(i) ==
    /\ wpc[i] = "fetch"
    /\ i \notin failing
    /\ Len(fileChan) < Len(pages)
    /\ ~fileClosed
    /\ fetchRes' = [fetchRes EXCEPT ![i] = "ok"]
    /\ fileChan' = Append(fileChan, File(pages[i], i))
    /\ wpc' = [wpc EXCEPT ![i] = "cbcall"]
    /\ UNCHANGED <<restVars, collected, pages, failing, mpc, next, cpc, guard, wg, errChan, fileClosed,
                   done, files, downloadErr, ret, cbActive, cbCount,
                   cbErrCount, firstErr>>

\* FetchFile returns an error and the send case of
\*   select { case errChan <- fmt.Errorf("page %d: %w", page.Number, err): ... }
\* is taken; the worker is then about to call onprogress(idx, idx, err)
FetchFailCaptured(i) ==
    /\ wpc[i] = "fetch"
    /\ i \in failing
    /\ ErrChanCanSend(errChan)
    /\ fetchRes' = [fetchRes EXCEPT ![i] = "err"]
    /\ errChan' = Append(errChan, WrapErr(pages[i], i))
    /\ firstErr' = IF firstErr = NoError THEN WrapErr(pages[i], i) ELSE firstErr
    /\ wpc' = [wpc EXCEPT ![i] = "cbcall"]
    /\ UNCHANGED <<restVars, collected, pages, failing, mpc, next, cpc, guard, wg, fileChan, fileClosed,
                   done, files, downloadErr, ret, cbActive, cbCount,
                   cbErrCount>>

\* (mutant) the default case returns without "<-guard"
FetchFailDroppedNoRelease(i) ==
    /\ wpc[i] = "fetch"
    /\ i \in failing
    /\ ~ErrChanCanSend(errChan)
    /\ fetchRes' = [fetchRes EXCEPT ![i] = "err"]
    /\ wg' = wg - 1
    /\ wpc' = [wpc EXCEPT ![i] = "done"]
    /\ UNCHANGED <<restVars, collected, pages, failing, mpc, next, cpc, guard, errChan,
                   fileChan, fileClosed, done, files, downloadErr, ret,
                   cbActive, cbCount, cbErrCount, firstErr>>

\* FetchFile returns an error and errChan is full: the default case of the
\* select is taken, then <-guard; return
FetchFailDropped(i) ==
    /\ wpc[i] = "fetch"
    /\ i \in failing
    /\ ~ErrChanCanSend(errChan)
    /\ fetchRes' = [fetchRes EXCEPT ![i] = "err"]
    /\ ReleaseAndExit(i)
    /\ UNCHANGED <<restVars, collected, pages, failing, mpc, next, cpc, errChan, fileChan, fileClosed,
                   done, files, downloadErr, ret, cbActive, cbCount,
                   cbErrCount, firstErr>>

\* the worker enters onprogress: onprogress(idx, idx, err) after a captured
\* failure, onprogress(1, idx, nil) after a sent file
CallbackBegin(i) ==
    /\ wpc[i] = "cbcall"
    /\ wpc' = [wpc EXCEPT ![i] = "incb"]
    /\ cbActive' = cbActive \cup {i}
    /\ cbCount' = [cbCount EXCEPT ![i] = @ + 1]
    /\ cbErrCount' = IF fetchRes[i] = "err" THEN cbErrCount + 1 ELSE cbErrCount
    /\ UNCHANGED <<restVars, collected, pages, failing, mpc, next, cpc, guard, wg, errChan, fileChan,
                   fileClosed, done, files, downloadErr, ret, fetchRes,
                   firstErr>>

\* onprogress returns; <-guard; return
CallbackEnd(i) ==
    /\ wpc[i] = "incb"
    /\ cbActive' = cbActive \ {i}
    /\ ReleaseAndExit(i)
    /\ UNCHANGED <<restVars, collected, pages, failing, mpc, next, cpc, errChan, fileChan, fileClosed,
                   done, files, downloadErr, ret, fetchRes, cbCount,
                   cbErrCount, firstErr>>

\* ------------------------------------------------------- closing goroutine
\* wg.Wait() returns; close(done)
CloseDone ==
    /\ cpc = "wait"
    /\ wg = 0
    /\ done' = TRUE
    /\ cpc' = "closefile"
    /\ UNCHANGED <<restVars, collected, pages, failing, mpc, next, wpc, guard, wg, errChan, fileChan,
                   fileClosed, files, downloadErr, ret, fetchRes, cbActive,
                   cbCount, cbErrCount, firstErr>>

\* (mutant) the closing goroutine ends without close(fileChan)
CloseFileChanForgotten ==
    /\ cpc = "closefile"
    /\ cpc' = "end"
    /\ UNCHANGED <<restVars, collected, pages, failing, mpc, next, wpc, guard, wg, errChan, fileChan, done,
                   fileClosed, files, downloadErr, ret, fetchRes, cbActive, cbCount,
                   cbErrCount, firstErr>>

\* close(fileChan)
CloseFileChan ==
    /\ cpc = "closefile"
    /\ fileClosed' = TRUE
    /\ cpc' = "end"
    /\ UNCHANGED <<restVars, collected, pages, failing, mpc, next, wpc, guard, wg, errChan, fileChan, done,
                   files, downloadErr, ret, fetchRes, cbActive, cbCount,
                   cbErrCount, firstErr>>

\* ---------------------------------------------- collecting loop (the select)
\* (mutant) the error case forgets "collecting = false"
CollectErrKeepCollecting ==
    /\ mpc = "collect"
    /\ Len(errChan) > 0
    /\ downloadErr' = Head(errChan)
    /\ errChan' = Tail(errChan)
    /\ UNCHANGED <<restVars, collected, pages, failing, mpc, next, wpc, cpc, guard, wg,
                   fileChan, fileClosed, done, files, ret, fetchRes, cbActive,
                   cbCount, cbErrCount, firstErr>>

\* case err := <-errChan: downloadErr = err; collecting = false
CollectErr ==
    /\ mpc = "collect"
    /\ Len(errChan) > 0
    /\ downloadErr' = Head(errChan)
    /\ errChan' = Tail(errChan)
    /\ mpc' = "drain"
    /\ UNCHANGED <<restVars, collected, pages, failing, next, wpc, cpc, guard, wg, fileChan, fileClosed,
                   done, files, ret, fetchRes, cbActive, cbCount, cbErrCount,
                   firstErr>>

\* case file := <-fileChan: if file != nil { files = append(files, file) }
\* (a closed, empty fileChan yields nil and the loop goes round again)
CollectFile ==
    /\ mpc = "collect"
    /\ Len(fileChan) > 0 \/ fileClosed
    /\ IF Len(fileChan) > 0
       THEN /\ files' = Append(files, Head(fileChan))
            /\ collected' = Append(collected, Head(fileChan).Page)
            /\ fileChan' = Tail(fileChan)
       ELSE UNCHANGED <<files, fileChan, collected>>
    /\ UNCHANGED <<restVars, pages, failing, mpc, next, wpc, cpc, guard, wg, errChan, fileClosed,
                   done, downloadErr, ret, fetchRes, cbActive, cbCount,
                   cbErrCount, firstErr>>

\* case <-done: collecting = false
CollectDone ==
    /\ mpc = "collect"
    /\ done
    /\ mpc' = "drain"
    /\ UNCHANGED <<restVars, collected, pages, failing, next, wpc, cpc, guard, wg, errChan, fileChan,
                   fileClosed, done, files, downloadErr, ret, fetchRes,
                   cbActive, cbCount, cbErrCount, firstErr>>

\* ------------------------------------------------ draining loop and return
\* for file := range fileChan { if file != nil { files = append(files, file) } }
DrainFile ==
    /\ mpc = "drain"
    /\ Len(fileChan) > 0
    /\ files' = Append(files, Head(fileChan))
    /\ collected' = Append(collected, Head(fileChan).Page)
    /\ fileChan' = Tail(fileChan)
    /\ UNCHANGED <<restVars, pages, failing, mpc, next, wpc, cpc, guard, wg, errChan, fileClosed,
                   done, downloadErr, ret, fetchRes, cbActive, cbCount,
                   cbErrCount, firstErr>>

\* (mutant) no "for file := range fileChan": the function returns as soon as
\* the collecting loop is left
ReturnWithoutDrain ==
    /\ mpc = "drain"
    /\ IF downloadErr # NoError
       THEN /\ ret' = ErrorResult(downloadErr)
            /\ files' = <<>>
       ELSE /\ ret' = FilesResult(SortStable(files))
            /\ files' = SortStable(files)
    /\ mpc' = "ret"
    /\ UNCHANGED <<restVars, collected, pages, failing, next, wpc, cpc, guard, wg,
                   errChan, fileChan, fileClosed, done, downloadErr, fetchRes,
                   cbActive, cbCount, cbErrCount, firstErr>>

\* the range loop ends on the closed, empty fileChan;
\* if downloadErr != nil { return nil, downloadErr }; sort.SliceStable; return
Return ==
    /\ mpc = "drain"
    /\ Len(fileChan) = 0
    /\ fileClosed
    /\ IF downloadErr # NoError
       THEN /\ ret' = ErrorResult(downloadErr)
            /\ files' = <<>>
       ELSE /\ ret' = FilesResult(SortStable(files))
            /\ files' = SortStable(files)
    /\ mpc' = "ret"
    /\ UNCHANGED <<restVars, collected, pages, failing, next, wpc, cpc, guard, wg, errChan, fileChan,
                   fileClosed, done, downloadErr, fetchRes, cbActive, cbCount,
                   cbErrCount, firstErr>>

\* ------------------------------------------------------------------- Next
Worker(i) ==
    \/ FetchOk(i)
    \/ FetchFailCaptured(i)
    \/ FetchFailDropped(i)
    \/ CallbackBegin(i)
    \/ CallbackEnd(i)

Next ==
    \/ Enter
    \/ Launch
    \/ StartCollect
    \/ \E i \in Idx : Worker(i)
    \/ CloseDone
    \/ CloseFileChan
    \/ CollectErr
    \/ CollectFile
    \/ CollectDone
    \/ DrainFile
    \/ Return

Spec == Init /\ [][Next]_vars

\* the same program on the large chapter
SpecBig == InitBig /\ [][Next]_vars

\* ---------------------------------------------------------------- fairness
\* The goroutines of FetchChapter: the one running the function body, the
\* one that waits and closes, and one worker per page.
MainGoroutine ==
    \/ Enter \/ Launch \/ StartCollect \/ CollectErr \/ CollectFile \/ CollectDone
    \/ DrainFile \/ Return
Closer == CloseDone \/ CloseFileChan

\* Every goroutine that can take a step eventually takes one: the Go scheduler
\* starves no runnable goroutine, every page fetch and every callback
\* returns, and a select whose done case stays ready eventually leaves the
\* loop (the runtime picks among ready cases at random). Nothing is assumed
\* about which ready case a select takes.
Fairness ==
    /\ WF_vars(MainGoroutine)
    /\ WF_vars(Closer)
    /\ \A i \in Idx : WF_vars(Worker(i))

\* chapters of exactly GuardCap pages and of one page more
LimitChapters == { [i \in 1..n |-> i] : n \in {GuardCap, GuardCap + 1} }

\* chapters below the admission limit with every pattern of failing pages;
\* chapters at the limit and above it on servers that serve at most one of
\* their pages, in every pattern
InitLive ==
    \/ Init
    \/ \E ps \in LimitChapters : \E fl \in SUBSET (1..Len(ps)) :
          /\ Cardinality(fl) >= Len(ps) - 1
          /\ Start(ps, fl)
          /\ RestIdle

SpecLive == InitLive /\ [][Next]_vars /\ Fairness

\* ------------------------------------------------------------- type sanity
TypeOK ==
    /\ mpc \in {"idle", "entry", "launch", "collect", "drain", "ret"}
    /\ next \in 1..(MaxIdx + 1)
    /\ guard \in 0..GuardCap
    /\ wg \in 0..MaxIdx
    /\ Len(errChan) <= ErrChanCap
    /\ Len(fileChan) <= Len(pages)

\* ===================================================================
\* Properties of FetchChapter
\* ===================================================================
NPages == Len(pages)
Returned == ret.returned
\* page indexes whose fetch has failed
Failed == {i \in 1..NPages : fetchRes[i] = "err"}
\* fetches started and not yet completed
InFlight == {i \in Idx : wpc[i] = "fetch"}
\* workers that have been started and have not exited
Running == {i \in Idx : wpc[i] \in {"fetch", "cbcall", "incb"}}

\* C1: if at least one page fetch has failed, FetchChapter returns nil files
\* and a non-nil error, never a non-nil file list with a nil error.
C1_FailureGivesNilAndError ==
    (Returned /\ Failed # {}) => (ret.nilFiles /\ ret.err # NoError)

\* C2: when every fetch succeeds, in every completion order, FetchChapter
\* returns a nil error and exactly one file per input page, carrying that
\* page's number and the bytes fetched for it.
C2_AllPagesReturned ==
    (Returned /\ failing = {}) =>
        /\ ret.err = NoError
        /\ ~ret.nilFiles
        /\ Len(ret.files) = NPages
        /\ \A i \in 1..NPages :
              Cardinality({k \in 1..Len(ret.files) :
                  ret.files[k] = [Page |-> pages[i], Data |-> BodyOf(i)]}) = 1

\* all of a largest chapter's pages were returned although they were
\* collected in an order that is neither the input order nor the page order
C2_Witness ==
    /\ Returned
    /\ failing = {}
    /\ NPages = MaxPages
    /\ Len(ret.files) = MaxPages
    /\ collected # pages
    /\ collected # [k \in 1..NPages |-> k]

\* C3: a file list returned without error is strictly ascending by Page,
\* whatever order the fetches completed in.
C3_StrictlyAscending ==
    (Returned /\ ret.err = NoError) =>
        \A k \in 1..(Len(ret.files) - 1) : ret.files[k].Page < ret.files[k + 1].Page

\* files that arrived in descending page order were returned
C3_Witness ==
    /\ Returned
    /\ ret.err = NoError
    /\ Len(ret.files) >= 2
    /\ \A k \in 1..(Len(collected) - 1) : collected[k] > collected[k + 1]

\* C4: at every instant the number of fetches started and not yet completed
\* is at most the admission limit.
C4_BoundedInFlight == Cardinality(InFlight) <= GuardCap

\* the admission limit is reached while pages remain to be launched
C4_Witness ==
    /\ mpc = "launch"
    /\ next <= NPages
    /\ Cardinality(InFlight) = GuardCap

\* C5: at no instant are two invocations of the progress callback executing.
C5_CallbacksSerialized == Cardinality(cbActive) <= 1

\* C6: by the time FetchChapter returns, the progress callback has been
\* invoked exactly once for every page, failed pages included.
C6_OneCallbackPerPage ==
    Returned => \A i \in 1..NPages : cbCount[i] = 1

\* C7: the error FetchChapter returns is the first failure captured in the
\* error slot, wrapped with its page's number; a later failure never replaces
\* it and it is the failure of a page that did fail.
C7_FirstFailureWins ==
    /\ downloadErr # NoError => downloadErr = firstErr
    /\ (Returned /\ ret.err # NoError) =>
          /\ ret.err = firstErr
          /\ ret.err.cause \in Failed
          /\ ret.err.page = pages[ret.err.cause]

\* an error was returned while a later failure of another page sits in the
\* error slot
C7_Witness ==
    /\ Returned
    /\ ret.err # NoError
    /\ errChan # <<>>
    /\ Head(errChan) # ret.err

\* C8: on a chapter without pages FetchChapter returns an empty file list and
\* a nil error, starts no fetch and never invokes the progress callback.
C8_EmptyChapter ==
    (NPages = 0 /\ Returned) =>
        /\ ret.files = <<>>
        /\ ret.err = NoError
        /\ \A i \in Idx : wpc[i] = "idle" /\ fetchRes[i] = "none" /\ cbCount[i] = 0
        /\ cbErrCount = 0

C8_Witness == NPages = 0 /\ Returned

\* C9: a slot is held exactly by the workers that are still running (every
\* exit path has released it); when FetchChapter returns every worker has
\* exited and no slot is held; on the error path nothing collected is returned.
C9_SlotsReleasedAndDrained ==
    /\ guard = Cardinality(Running)
    /\ Returned =>
          /\ \A i \in 1..NPages : wpc[i] = "done"
          /\ guard = 0
          /\ wg = 0
    /\ (Returned /\ ret.err # NoError) => (ret.nilFiles /\ ret.files = <<>>)

\* an error was returned after a page was fetched and collected and after
\* another failure took the default path of the select
C9_Witness ==
    /\ Returned
    /\ ret.err # NoError
    /\ collected # <<>>
    /\ \E j \in Failed : cbCount[j] = 0

\* C10: when FetchChapter returns a non-nil error, the progress callback has
\* been invoked at least once with a non-nil error.
C10_ErrorReported ==
    (Returned /\ ret.err # NoError) => cbErrCount >= 1

\* an error was returned; of two failed pages one was reported
C10_Witness ==
    /\ Returned
    /\ ret.err # NoError
    /\ Cardinality(Failed) >= 2
    /\ cbErrCount = 1

\* C21: FetchChapter always returns: for chapters below, at and above the
\* admission limit, every pattern of failing pages and every interleaving,
\* provided every page fetch and every callback terminates.
C21_AlwaysReturns == <>Returned

\* returned for a chapter larger than the admission limit with failed pages
C21_Witness ==
    /\ Returned
    /\ NPages > GuardCap
    /\ Failed # {}
    /\ Running = {}

\* a step in which the fetch of page index i begins
FetchBegins(i) == wpc[i] # "fetch" /\ wpc'[i] = "fetch"
\* the fetch of page index i has been made
Fetched(i) == fetchRes[i] # "none" /\ wpc[i] # "fetch"

\* C22: each page of the chapter is fetched exactly once, also when some page
\* fails: a fetch begins only for a page never fetched before and its
\* outcome is never replaced (no retry), and by the time FetchChapter returns
\* the fetch of every page has been made (no early end of the launching
\* loop).
C22_EachPageFetchedOnce ==
    /\ [][\A i \in Idx :
            /\ FetchBegins(i) => (i \in 1..NPages /\ wpc[i] = "idle" /\ fetchRes[i] = "none")
            /\ wpc'[i] = "idle" => wpc[i] = "idle"
            /\ fetchRes[i] # "none" => fetchRes'[i] = fetchRes[i]]_vars
    /\ [](Returned => \A i \in 1..NPages : Fetched(i))

\* the fetch of the last page is running, started in the slot freed by a
\* page whose fetch failed: every page that has not failed still holds its
\* slot
C22_Witness ==
    /\ NPages > GuardCap
    /\ wpc[GuardCap + 1] = "fetch"
    /\ Failed # {}
    /\ \A i \in 1..GuardCap : i \notin Failed => i \in Running

\* ===================================================================
\* packer: strings, file names, the file system
\* ===================================================================
\* A string is a sequence of one-character strings.

\* largest file list handed to ArchiveCBZ
MaxFiles == 3

RECURSIVE Digits(_)
\* the decimal digits of a natural number, as fmt prints them with %d
Digits(n) ==
    LET DigitChars == <<"0", "1", "2", "3", "4", "5", "6", "7", "8", "9">>
    IN  IF n < 10 THEN <<DigitChars[n + 1]>>
        ELSE Digits(n \div 10) \o <<DigitChars[(n % 10) + 1]>>

\* the width w, zero flag of %0wd: zeros in front up to w characters
ZeroPad(str, w) == [k \in 1..(IF Len(str) < w THEN w - Len(str) ELSE 0) |-> "0"] \o str

\* strings.ToLower on one character (ASCII letters)
LowerChar(c) ==
    LET Upper == <<"A", "B", "C", "D", "E", "F", "G", "H", "I", "J", "K", "L", "M",
                   "N", "O", "P", "Q", "R", "S", "T", "U", "V", "W", "X", "Y", "Z">>
        Lower == <<"a", "b", "c", "d", "e", "f", "g", "h", "i", "j", "k", "l", "m",
                   "n", "o", "p", "q", "r", "s", "t", "u", "v", "w", "x", "y", "z">>
    IN  IF \E k \in 1..26 : Upper[k] = c
        THEN Lower[CHOOSE k \in 1..26 : Upper[k] = c]
        ELSE c

\* strings.ToLower
ToLower(str) == [k \in 1..Len(str) |-> LowerChar(str[k])]

\* strings.HasSuffix
HasSuffix(str, suffix) ==
    /\ Len(suffix) <= Len(str)
    /\ SubSeq(str, Len(str) - Len(suffix) + 1, Len(str)) = suffix

CBZExt == <<".", "c", "b", "z">>
JPGExt == <<".", "j", "p", "g">>

\* (mutant) the entry is named after its position in the list
EntryNameByIndex(file, i) == ZeroPad(Digits(i + 1), 3) \o JPGExt

\* filename := fmt.Sprintf("%03d.jpg", file.Page), for the file at 0-based
\* position i of the list
EntryName(file, i) == ZeroPad(Digits(file.Page), 3) \o JPGExt

\* if !strings.HasSuffix(strings.ToLower(filename), ".cbz") { filename += ".cbz" }
\* A path is [dir, name]: filepath.Dir of it is dir, "." when it has none.
WithCBZExt(filename) ==
    IF HasSuffix(ToLower(filename.name), CBZExt)
    THEN filename
    ELSE [filename EXCEPT !.name = @ \o CBZExt]

\* the file exists
Exists(d, path) == path \in DOMAIN d.files

\* (mutant) no emptiness check
NeverEmpty(fs) == FALSE

\* len(files) == 0
NothingToPack(fs) == Len(fs) = 0

\* (mutant) the file is opened with O_TRUNC instead of O_EXCL
OpenNeverRefuses(d, path) == FALSE

\* os.OpenFile(filename, os.O_RDWR|os.O_CREATE|os.O_EXCL, 0666) fails with an
\* error for which os.IsExist holds
OpenRefusesExisting(d, path) == Exists(d, path)

\* os.MkdirAll(dir, 0755)
MkdirAll(d, dir) == [d EXCEPT !.dirs = @ \cup {dir}]

\* the file at path now holds content
WriteFile(d, path, content) ==
    [d EXCEPT !.files = [q \in DOMAIN d.files \cup {path} |->
                            IF q = path THEN content ELSE d.files[q]]]

\* os.Remove(path)
RemoveFile(d, path) ==
    [d EXCEPT !.files = [q \in DOMAIN d.files \ {path} |-> d.files[q]]]

\* the zip entries written for the first n files, in the order of the loop
\* "for i, file := range files": w.Create(filename); f.Write(file.Data)
Entries(fs, n) == [i \in 1..n |-> [name |-> EntryName(fs[i], i - 1), data |-> fs[i].Data]]

\* the progress(1, i) calls made for the first n files
ProgressCalls(n) == [i \in 1..n |-> i - 1]

\* An I/O fault is [kind, at]: "none", "mkdir" (os.MkdirAll fails), "open"
\* (os.OpenFile fails, not because the file exists), "entry" (w.Create fails
\* for the file at position at), "write" (f.Write fails for it).
NoFault == [kind |-> "none", at |-> 0]

\* ArchiveCBZ(filename, files, progress) on disk d under I/O fault flt: the
\* error returned, the disk afterwards and the progress calls made
ArchiveCBZOp(d, filename, fs, flt) ==
    IF NothingToPack(fs)
    THEN [err |-> "no files to pack", disk |-> d, progress |-> <<>>]
    ELSE
    LET fname == WithCBZExt(filename)
        dir == fname.dir
        \* os.MkdirAll can only fail for a directory that is not there yet
        mkdirFails == dir # "." /\ dir \notin d.dirs /\ flt.kind = "mkdir"
        d1 == IF dir # "." /\ ~mkdirFails THEN MkdirAll(d, dir) ELSE d
    IN  IF mkdirFails
        THEN [err |-> "failed to create directory", disk |-> d, progress |-> <<>>]
        ELSE IF OpenRefusesExisting(d1, fname)
        THEN [err |-> "already exists", disk |-> d1, progress |-> <<>>]
        ELSE IF flt.kind = "open"
        THEN [err |-> "failed to create file", disk |-> d1, progress |-> <<>>]
        ELSE IF flt.kind = "entry"
        THEN [err |-> "failed to create entry",
              disk |-> WriteFile(d1, fname, Entries(fs, flt.at - 1)),
              progress |-> ProgressCalls(flt.at - 1)]
        ELSE IF flt.kind = "write"
        THEN [err |-> "failed to write data",
              disk |-> WriteFile(d1, fname, Entries(fs, flt.at - 1) \o
                          <<[name |-> EntryName(fs[flt.at], flt.at - 1), data |-> 0]>>),
              progress |-> ProgressCalls(flt.at - 1)]
        ELSE [err |-> "nil",
              disk |-> WriteFile(d1, fname, Entries(fs, Len(fs))),
              progress |-> ProgressCalls(Len(fs))]

\* ---------------------------------------------------- filename policy
\* if len(result) > 200 { result = result[:200] }
MaxNameLen == 200

\* (mutant) the list of invalid characters lacks the last one
InvalidCharsShort == <<"/", "\\", ":", "*", "?", "\"", "<", ">">>

\* invalidChars := []string{"/", "\\", ":", "*", "?", "\"", "<", ">", "|"}
InvalidChars == <<"/", "\\", ":", "*", "?", "\"", "<", ">", "|">>

\* strings.ReplaceAll(str, old, new) for one-character old and new
ReplaceAll(str, old, new) == [k \in 1..Len(str) |-> IF str[k] = old THEN new ELSE str[k]]

RECURSIVE ReplaceEach(_, _)
\* for _, char := range invalidChars { result = strings.ReplaceAll(result, char, "_") }
ReplaceEach(str, chars) ==
    IF chars = <<>> THEN str
    ELSE ReplaceEach(ReplaceAll(str, Head(chars), "_"), Tail(chars))

RECURSIVE TrimRight(_, _)
\* strings.TrimRight(str, cutset)
TrimRight(str, cutset) ==
    IF str # <<>> /\ str[Len(str)] \in cutset
    THEN TrimRight(SubSeq(str, 1, Len(str) - 1), cutset)
    ELSE str

\* if len(result) > 200 { result = result[:200] }
Truncate(str) == IF Len(str) > MaxNameLen THEN SubSeq(str, 1, MaxNameLen) ELSE str

\* sanitizeFilename(filename)
SanitizeFilename(str) == Truncate(TrimRight(ReplaceEach(str, InvalidChars), {" ", "."}))

\* A chapter number is held in quarters: q stands for the float64 q/4, which
\* is exact in binary.
\* chapterNumber == float64(int64(chapterNumber))
IsIntegral(q) == q % 4 = 0

\* fmt.Sprintf("%.0f", chapterNumber) for an integral number
FormatF0(q) == Digits(q \div 4)

\* fmt.Sprintf("%.1f", chapterNumber): the nearest tenth, an exact tie going
\* to the even digit (x.25 -> x.2, x.75 -> x.8)
FormatF1(q) ==
    LET tenth == CASE q % 4 = 0 -> 0
                   [] q % 4 = 1 -> 2
                   [] q % 4 = 2 -> 5
                   [] q % 4 = 3 -> 8
    IN  Digits(q \div 4) \o <<".">> \o Digits(tenth)

\* (mutant) the number is always printed with %.1f
ChapterStrF1(q) == FormatF1(q)

\* chapterStr := fmt.Sprintf("%.1f", chapterNumber)
\* if chapterNumber == float64(int64(chapterNumber)) { chapterStr = fmt.Sprintf("%.0f", chapterNumber) }
ChapterStr(q) == IF IsIntegral(q) THEN FormatF0(q) ELSE FormatF1(q)

\* GetCBZFilename(title, chapterNumber, chapterTitle)
GetCBZFilename(title, q, chapterTitle) ==
    LET base == SanitizeFilename(title) \o <<" ", "-", " ", "C", "h", "a", "p", "t", "e", "r", " ">> \o ChapterStr(q)
        withTitle == IF chapterTitle # <<>>
                     THEN base \o <<" ", "-", " ">> \o SanitizeFilename(chapterTitle)
                     ELSE base
    IN  withTitle \o CBZExt

\* ------------------------------------------------ ArchiveMultipleChapters
\* filepath.Join(baseDir, filename)
JoinPath(baseDir, filename) == [dir |-> baseDir, name |-> filename]

RECURSIVE ArchiveGroups(_, _, _, _, _, _, _)
\* the loop "for chapterKey, files := range chapters" of
\* ArchiveMultipleChapters over the keys still to visit (order is the order in
\* which the map yields them): an empty group is passed over, the first group
\* whose ArchiveCBZ fails ends the call with "failed to archive chapter"
ArchiveGroups(d, baseDir, order, chapters, titles, numbers, flts) ==
    IF order = <<>> THEN [err |-> "nil", failed |-> "", disk |-> d]
    ELSE
    LET key == Head(order)
        fs == chapters[key]
    IN  IF Len(fs) = 0
        THEN ArchiveGroups(d, baseDir, Tail(order), chapters, titles, numbers, flts)
        ELSE
        LET filename == GetCBZFilename(titles[key], numbers[key], <<>>)
            r == ArchiveCBZOp(d, JoinPath(baseDir, filename), fs, flts[key])
        IN  IF r.err # "nil"
            THEN [err |-> "failed to archive chapter", failed |-> key, disk |-> r.disk]
            ELSE ArchiveGroups(r.disk, baseDir, Tail(order), chapters, titles, numbers, flts)

\* ArchiveMultipleChapters(baseDir, chapters, titles, chapterNumbers, progress)
ArchiveMultipleOp(d, baseDir, order, chapters, titles, numbers, flts) ==
    IF order = <<>>
    THEN [err |-> "no chapters to pack", failed |-> "", disk |-> d]
    ELSE ArchiveGroups(MkdirAll(d, baseDir), baseDir, order, chapters, titles, numbers, flts)

\* ------------------------------------------------------------ converter
\* NewConverter(): MaxConcurrency 1, DeleteSource true, OutputDir "."
NewConverter == [MaxConcurrency |-> 1, DeleteSource |-> TRUE, OutputDir |-> "."]

\* position of the last period of str, 0 when it has none
LastDot(str) ==
    IF \E k \in 1..Len(str) : str[k] = "."
    THEN CHOOSE k \in 1..Len(str) : str[k] = "." /\ \A j \in (k + 1)..Len(str) : str[j] # "."
    ELSE 0

\* strings.TrimSuffix(filepath.Base(inputFile), filepath.Ext(inputFile))
BaseName(inputFile) ==
    IF LastDot(inputFile.name) = 0 THEN inputFile.name
    ELSE SubSeq(inputFile.name, 1, LastDot(inputFile.name) - 1)

\* c.GenerateOutputPath(inputFile, extension)
GenerateOutputPath(c, inputFile, extension) ==
    [dir |-> IF c.OutputDir # "" /\ c.OutputDir # "." THEN c.OutputDir ELSE ".",
     name |-> BaseName(inputFile) \o extension]

\* what ebook-convert writes
Converted == <<[name |-> <<"b", "o", "o", "k">>, data |-> 9]>>

\* The environment of one conversion: lookPath (the Calibre binary is found),
\* run (the command "fail"s, ends "ok" with the output written, or ends with
\* "nooutput"), mkdir and remove (os.MkdirAll and os.Remove succeed).
ConvEnvs ==
    [lookPath : BOOLEAN, run : {"fail", "ok", "nooutput"}, mkdir : BOOLEAN, remove : BOOLEAN]

\* the value a conversion returns and the disk it leaves
ConvResult(success, error, err, d) ==
    [Success |-> success, Error |-> error, err |-> err, disk |-> d]

\* c.ConvertCBZToAZW3(inputFile, outputFile) when checksTool, and
\* c.ConvertCBZToFormat(inputFile, outputFile, format) otherwise; the two
\* differ in the checkEbookConvert step only. The source is removed after
\* every successful conversion; c.DeleteSource is not read.
ConvertOp(d, c, checksTool, inputFile, outputFile, env) ==
    IF ~Exists(d, inputFile)
    THEN ConvResult(FALSE, "input file does not exist", "input file does not exist", d)
    ELSE IF outputFile.dir \notin d.dirs /\ ~env.mkdir
    THEN ConvResult(FALSE, "failed to create output directory",
                    "failed to create output directory", d)
    ELSE
    LET d1 == MkdirAll(d, outputFile.dir)
        d2 == IF env.run = "ok" THEN WriteFile(d1, outputFile, Converted) ELSE d1
    IN  IF checksTool /\ ~env.lookPath
        THEN ConvResult(FALSE, "ebook-convert not found", "ebook-convert not found", d1)
        ELSE IF env.run = "fail"
        THEN ConvResult(FALSE, "ebook-convert failed", "ebook-convert failed", d1)
        ELSE IF ~Exists(d2, outputFile)
        THEN ConvResult(FALSE, "output file was not created",
                        "output file was not created", d2)
        ELSE IF env.remove
        THEN ConvResult(TRUE, "nil", "nil", RemoveFile(d2, inputFile))
        ELSE ConvResult(TRUE, "conversion successful but failed to delete source file",
                        "nil", d2)

\* ------------------------------------------------------- packer inputs
\* page numbers of the files packed (one of them has two digits)
PackPages == {1, 2, 3, 12}

\* the bytes of the file at position i of a list
PackData(i) == 200 + i

\* the file lists: every sequence of at most MaxFiles page numbers
FileLists ==
    UNION { { [i \in 1..n |-> [Page |-> ps[i], Data |-> PackData(i)]] :
                ps \in [1..n -> PackPages] } : n \in 0..MaxFiles }

\* destination paths: with and without the extension, in and below the
\* working directory
PackNames == {<<"a">>, <<"a", ".", "c", "b", "z">>, <<"a", ".", "C", "B", "Z">>, <<"a", ".", "z", "i", "p">>}
PackPaths == { [dir |-> dr, name |-> nm] : dr \in {".", "out"}, nm \in PackNames }

\* what an earlier run left in a container
OldContent == <<[name |-> <<"o", "l", "d", ".", "j", "p", "g">>, data |-> 7]>>

\* the disks a call starts from: empty, or with one container left behind
InitialDisks ==
    {EmptyDisk} \cup
    { WriteFile(MkdirAll(EmptyDisk, dr), [dir |-> dr, name |-> nm], OldContent) :
        dr \in {".", "out"}, nm \in {<<"a", ".", "c", "b", "z">>, <<"a", ".", "C", "B", "Z">>, <<"a", ".", "z", "i", "p", ".", "c", "b", "z">>} }

\* the faults that can strike a call with these arguments
Faults(fs) ==
    { [kind |-> k, at |-> 0] : k \in {"none", "mkdir", "open"} } \cup
    { [kind |-> k, at |-> n] : k \in {"entry", "write"}, n \in 1..Len(fs) }

\* longest string built from the alphabet below
MaxStr == 3

\* the characters of the strings sanitized: a letter, the two trimmed
\* characters, the first and the last invalid character
SanAlphabet == {"a", " ", ".", "/", "|"}

ShortStrings == UNION { [1..n -> SanAlphabet] : n \in 0..MaxStr }

\* a run of n letters
Pad(n) == [k \in 1..n |-> "A"]

\* strings around the length limit: a run of letters in front of a short string
LongStrings ==
    { Pad(n) \o str : n \in (MaxNameLen - 3)..(MaxNameLen + 1), str \in ShortStrings }

\* the inputs of TestSanitizeFilename
TestStrings == {
    <<"N", "o", "r", "m", "a", "l", " ", "T", "i", "t", "l", "e">>,
    <<"T", "i", "t", "l", "e", "/", "w", "i", "t", "h", "\\", "i", "n", "v", "a", "l", "i", "d", ":", "c", "h", "a", "r", "s", "*", "?", "\"", "<", ">", "|">>,
    <<"T", "i", "t", "l", "e", " ", "w", "i", "t", "h", " ", "s", "p", "a", "c", "e", "s", ".", ".", ".", " ">>,
    <<"M", "a", "n", "g", "a", ":", " ", "T", "e", "s", "t", "/", "T", "i", "t", "l", "e">>,
    Pad(250) }

SanitizeInputs == ShortStrings \cup LongStrings \cup TestStrings

\* titles and chapter titles given to GetCBZFilename
Titles == { <<"O", "n", "e", " ", "P", "i", "e", "c", "e">>, <<"X">>, <<"M", "a", "n", "g", "a", ":", " ", "T", "e", "s", "t", "/", "T", "i", "t", "l", "e">>, <<"a", ".">> }
ChapterTitles == { <<>>, <<"R", "o", "m", "a", "n", "c", "e", " ", "D", "a", "w", "n">>, <<"C", "h", "a", "p", "t", "e", "r", "*", "T", "i", "t", "l", "e">>, <<".", ".">> }
\* chapter numbers, in quarters: 0, 1, 1.25, 1.5, 1.75, 2, 10, 10.5, 105
ChapterNumbers == {0, 4, 5, 6, 7, 8, 40, 42, 420}

\* chapter groups: keys, the title and number of each
GroupKeys == {"chapter1", "chapter2", "chapter3"}
GroupTitle == <<"T">>
GroupNumbers == [k \in GroupKeys |-> CASE k = "chapter1" -> 4 [] k = "chapter2" -> 8 [] OTHER -> 6]
\* the files of a group: none, one page or two pages
GroupFiles == { fs \in FileLists : Len(fs) <= 2 /\ \A i \in 1..Len(fs) : fs[i].Page = i }
\* the orders in which a map with these keys can be ranged over
Orders(keys) ==
    { o \in UNION { [1..n -> keys] : n \in 0..Cardinality(GroupKeys) } :
        /\ Len(o) = Cardinality(keys)
        /\ \A i, j \in 1..Len(o) : i # j => o[i] # o[j] }
\* the disks ArchiveMultipleChapters starts from: empty, or with the container
\* of chapter 2 already in the target directory
GroupDisks ==
    { EmptyDisk,
      WriteFile(MkdirAll(EmptyDisk, "out"),
                JoinPath("out", GetCBZFilename(GroupTitle, 8, <<>>)), OldContent) }

\* the converters: the default one, the one of performAZW3Conversion
\* (DeleteSource false), and one writing below the working directory
Converters ==
    { [NewConverter EXCEPT !.DeleteSource = ds, !.OutputDir = od] :
        ds \in BOOLEAN, od \in {".", "out"} }
\* the files handed to a conversion
ConvInputs == { [dir |-> dr, name |-> <<"a", ".", "c", "b", "z">>] : dr \in {".", "out"} }
\* the extensions converted to: ".azw3" by ConvertCBZToAZW3, the others by
\* ConvertCBZToFormat
ConvExtensions == { <<".", "a", "z", "w", "3">>, <<".", "e", "p", "u", "b">> }

\* FetchChapter is not running
DownloaderIdle == Start(<<>>, {})

InitPacker ==
    /\ DownloaderIdle
    /\ disk \in InitialDisks \cup GroupDisks
    /\ call = NoCall
    /\ result = NoResult
    /\ batch = NoBatch
    /\ conv = NoConv

\* a call of packer.ArchiveCBZ
CallArchiveCBZ ==
    /\ call.op = "none"
    /\ \E filename \in PackPaths, fs \in FileLists :
       \E flt \in Faults(fs) :
          LET r == ArchiveCBZOp(disk, filename, fs, flt)
          IN  /\ call' = [op |-> "ArchiveCBZ", filename |-> filename, files |-> fs,
                          fault |-> flt, before |-> disk]
              /\ result' = [err |-> r.err, progress |-> r.progress]
              /\ disk' = r.disk
    /\ UNCHANGED <<conv, batch, pages, failing, mpc, next, wpc, cpc, guard, wg, errChan,
                   fileChan, fileClosed, done, files, downloadErr, ret,
                   fetchRes, cbActive, cbCount, cbErrCount, firstErr, collected>>

\* a call of sanitizeFilename
CallSanitizeFilename ==
    /\ call.op = "none"
    /\ \E str \in SanitizeInputs :
          /\ call' = [op |-> "sanitizeFilename", input |-> str]
          /\ result' = [err |-> "nil", value |-> SanitizeFilename(str)]
    /\ UNCHANGED <<conv, batch, pages, failing, mpc, next, wpc, cpc, guard, wg, errChan,
                   fileChan, fileClosed, done, files, downloadErr, ret,
                   fetchRes, cbActive, cbCount, cbErrCount, firstErr, collected,
                   disk>>

\* a call of packer.GetCBZFilename
CallGetCBZFilename ==
    /\ call.op = "none"
    /\ \E title \in Titles, q \in ChapterNumbers, chapterTitle \in ChapterTitles :
          /\ call' = [op |-> "GetCBZFilename", title |-> title, number |-> q,
                      chapterTitle |-> chapterTitle]
          /\ result' = [err |-> "nil", value |-> GetCBZFilename(title, q, chapterTitle)]
    /\ UNCHANGED <<conv, batch, pages, failing, mpc, next, wpc, cpc, guard, wg, errChan,
                   fileChan, fileClosed, done, files, downloadErr, ret,
                   fetchRes, cbActive, cbCount, cbErrCount, firstErr, collected,
                   disk>>

\* a call of packer.ArchiveMultipleChapters
CallArchiveMultipleChapters ==
    /\ call.op = "none"
    /\ disk \in GroupDisks
    /\ \E keys \in SUBSET GroupKeys :
       \E order \in Orders(keys), chapters \in [keys -> GroupFiles],
          flts \in [keys -> {NoFault, [kind |-> "write", at |-> 1]}] :
          LET titles == [k \in keys |-> GroupTitle]
              numbers == [k \in keys |-> GroupNumbers[k]]
              r == ArchiveMultipleOp(disk, "out", order, chapters, titles, numbers, flts)
          IN  /\ call' = [op |-> "ArchiveMultipleChapters", baseDir |-> "out",
                          order |-> order, chapters |-> chapters, titles |-> titles,
                          numbers |-> numbers, faults |-> flts, before |-> disk]
              /\ result' = [err |-> r.err, failed |-> r.failed]
              /\ disk' = r.disk
    /\ UNCHANGED <<conv, batch, pages, failing, mpc, next, wpc, cpc, guard, wg, errChan,
                   fileChan, fileClosed, done, files, downloadErr, ret,
                   fetchRes, cbActive, cbCount, cbErrCount, firstErr, collected>>

\* a call of c.ConvertCBZToAZW3 or c.ConvertCBZToFormat with the output path
\* of c.GenerateOutputPath
CallConvert ==
    /\ call.op = "none"
    /\ \E c \in Converters, inputFile \in ConvInputs, ext \in ConvExtensions, env \in ConvEnvs :
          LET outputFile == GenerateOutputPath(c, inputFile, ext)
              r == ConvertOp(disk, c, ext = <<".", "a", "z", "w", "3">>, inputFile, outputFile, env)
          IN  /\ call' = [op |-> "Convert", converter |-> c, inputFile |-> inputFile,
                          outputFile |-> outputFile, env |-> env, before |-> disk]
              /\ result' = [err |-> r.err, Success |-> r.Success, Error |-> r.Error]
              /\ disk' = r.disk
    /\ UNCHANGED <<conv, batch, pages, failing, mpc, next, wpc, cpc, guard, wg, errChan,
                   fileChan, fileClosed, done, files, downloadErr, ret,
                   fetchRes, cbActive, cbCount, cbErrCount, firstErr, collected>>

NextPacker ==
    \/ CallArchiveCBZ
    \/ CallConvert
    \/ CallArchiveMultipleChapters
    \/ CallSanitizeFilename
    \/ CallGetCBZFilename

SpecPacker == InitPacker /\ [][NextPacker]_vars

\* ===================================================================
\* fetchChapterRange in download mode (src/main.go): the loop over the
\* selected chapters, each downloaded by FetchChapter
\* ===================================================================
\* ------------------------------------------------------------------ bounds
\* most chapters selected in one batch
MaxBatch == 2

\* A selected chapter as the batch sees it: listing tells whether
\* mangadx.FetchChapter returns its pages, pages are the page numbers it
\* returns, failing the page indexes the server does not serve.
ListingFails == [listing |-> FALSE, pages |-> <<>>, failing |-> {}]
BatchChapters ==
    {ListingFails} \cup
    UNION { { [listing |-> TRUE, pages |-> [i \in 1..n |-> i], failing |-> fl] :
                fl \in SUBSET (1..n) } : n \in 1..2 }
Selections == UNION { [1..n -> BatchChapters] : n \in 1..MaxBatch }

\* the values of FetchChapter's variables when it is called
StartValues(ps, fl) ==
    [pages |-> ps, failing |-> fl, mpc |-> "entry", next |-> 1,
     wpc |-> [i \in Idx |-> "idle"], cpc |-> "none", guard |-> 0, wg |-> 0,
     errChan |-> <<>>, fileChan |-> <<>>, fileClosed |-> FALSE, done |-> FALSE,
     files |-> <<>>, downloadErr |-> NoError, ret |-> NotReturned,
     fetchRes |-> [i \in Idx |-> "none"], cbActive |-> {},
     cbCount |-> [i \in Idx |-> 0], cbErrCount |-> 0, firstErr |-> NoError,
     collected |-> <<>>]

\* FetchChapter has not been called: no goroutine of it exists
NotCalled == [StartValues(<<>>, {}) EXCEPT !.mpc = "idle"]

DownloaderIs(v) ==
    /\ pages = v.pages /\ failing = v.failing /\ mpc = v.mpc /\ next = v.next
    /\ wpc = v.wpc /\ cpc = v.cpc /\ guard = v.guard /\ wg = v.wg
    /\ errChan = v.errChan /\ fileChan = v.fileChan /\ fileClosed = v.fileClosed
    /\ done = v.done /\ files = v.files /\ downloadErr = v.downloadErr
    /\ ret = v.ret /\ fetchRes = v.fetchRes /\ cbActive = v.cbActive
    /\ cbCount = v.cbCount /\ cbErrCount = v.cbErrCount /\ firstErr = v.firstErr
    /\ collected = v.collected

\* the call downloader.FetchChapter(mangadx, chapterWithPages, progressCallback)
DownloaderBecomes(v) ==
    /\ pages' = v.pages /\ failing' = v.failing /\ mpc' = v.mpc /\ next' = v.next
    /\ wpc' = v.wpc /\ cpc' = v.cpc /\ guard' = v.guard /\ wg' = v.wg
    /\ errChan' = v.errChan /\ fileChan' = v.fileChan /\ fileClosed' = v.fileClosed
    /\ done' = v.done /\ files' = v.files /\ downloadErr' = v.downloadErr
    /\ ret' = v.ret /\ fetchRes' = v.fetchRes /\ cbActive' = v.cbActive
    /\ cbCount' = v.cbCount /\ cbErrCount' = v.cbErrCount /\ firstErr' = v.firstErr
    /\ collected' = v.collected

\* the download loop is entered with allFiles and downloadedChapters empty;
\* attempted (history) lists the chapters whose iteration has begun
\* the title, the chapterRange argument and the number of the k-th selected
\* chapter (in quarters; the selected chapters have different numbers)
BatchTitle == <<"T">>
BatchRange == <<"1", "-", "3">>
BatchNumber(k) == 4 * k

\* the batch as called: with or without saveCBZ; saved (history) is the
\* container written
BatchCall(sel, saveCBZ) ==
    [pc |-> "loop", selected |-> sel, idx |-> 1, allFiles |-> <<>>,
     downloadedChapters |-> <<>>, attempted |-> <<>>, err |-> "none",
     saveCBZ |-> saveCBZ, saved |-> <<>>]

InitMain ==
    /\ \E sel \in Selections, saveCBZ \in BOOLEAN : batch = BatchCall(sel, saveCBZ)
    /\ DownloaderIs(NotCalled)
    /\ disk = EmptyDisk
    /\ call = NoCall
    /\ result = NoResult
    /\ conv = NoConv

\* the files of a chapter as appended to allFiles; from (history) is the
\* position of the chapter they were downloaded for
Tagged(fs, k) == [i \in 1..Len(fs) |-> [file |-> fs[i], from |-> k]]

\* "if err != nil { ...; continue }" after downloader.FetchChapter
KeepsFiles(r) == r.err = NoError

\* mangadx.FetchChapter(selectedChapter) returns an error: continue
ListChapterFails ==
    /\ batch.pc = "loop"
    /\ batch.idx <= Len(batch.selected)
    /\ ~batch.selected[batch.idx].listing
    /\ batch' = [batch EXCEPT !.idx = @ + 1, !.attempted = Append(@, batch.idx)]
    /\ UNCHANGED <<conv, disk, call, result, pages, failing, mpc, next, wpc, cpc, guard, wg,
                   errChan, fileChan, fileClosed, done, files, downloadErr, ret,
                   fetchRes, cbActive, cbCount, cbErrCount, firstErr, collected>>

\* mangadx.FetchChapter succeeds: the chapter is appended to
\* downloadedChapters and downloader.FetchChapter is called
BeginDownload ==
    /\ batch.pc = "loop"
    /\ batch.idx <= Len(batch.selected)
    /\ batch.selected[batch.idx].listing
    /\ batch' = [batch EXCEPT !.pc = "downloading",
                              !.downloadedChapters = Append(@, batch.idx),
                              !.attempted = Append(@, batch.idx)]
    /\ DownloaderBecomes(StartValues(batch.selected[batch.idx].pages,
                                     batch.selected[batch.idx].failing))
    /\ UNCHANGED <<conv, disk, call, result>>

\* downloader.FetchChapter has returned: on an error the chapter is passed
\* over, otherwise allFiles = append(allFiles, files...)
AfterDownload ==
    /\ batch.pc = "downloading"
    /\ mpc = "ret"
    /\ batch' = [batch EXCEPT !.pc = "loop", !.idx = @ + 1,
                              !.allFiles = IF KeepsFiles(ret)
                                           THEN @ \o Tagged(ret.files, batch.idx)
                                           ELSE @]
    /\ UNCHANGED <<conv, disk, call, result, pages, failing, mpc, next, wpc, cpc, guard, wg,
                   errChan, fileChan, fileClosed, done, files, downloadErr, ret,
                   fetchRes, cbActive, cbCount, cbErrCount, firstErr, collected>>

\* the K of "Total downloaded: %d pages from %d chapters", which also
\* decides between the single-chapter and the bundle file name
ReportedChapters == Len(batch.downloadedChapters)

\* "if saveCBZ && len(allFiles) > 0"
Saves == batch.saveCBZ /\ Len(batch.allFiles) > 0

\* the name of the container: GetCBZFilename(title, chapter.Number,
\* chapter.Title) for one chapter, otherwise
\* GetCBZFilename(title, 0, fmt.Sprintf("Chapters %s", chapterRange))
BatchFilename ==
    IF ReportedChapters = 1
    THEN GetCBZFilename(BatchTitle, BatchNumber(batch.downloadedChapters[1]), <<>>)
    ELSE GetCBZFilename(BatchTitle, 0, <<"C", "h", "a", "p", "t", "e", "r", "s", " ">> \o BatchRange)

\* the loop is over and nothing is to be saved: the function returns
\* output, nil
FinishBatch ==
    /\ batch.pc = "loop"
    /\ batch.idx > Len(batch.selected)
    /\ ~Saves
    /\ batch' = [batch EXCEPT !.pc = "done", !.err = "nil"]
    /\ UNCHANGED <<conv, disk, call, result, pages, failing, mpc, next, wpc, cpc, guard, wg,
                   errChan, fileChan, fileClosed, done, files, downloadErr, ret,
                   fetchRes, cbActive, cbCount, cbErrCount, firstErr, collected>>

\* the loop is over and the collected files are saved:
\* packer.ArchiveCBZ(cbzFilename, allFiles, packingCallback), whose error is
\* returned as "error creating CBZ file"
SaveBatch ==
    /\ batch.pc = "loop"
    /\ batch.idx > Len(batch.selected)
    /\ Saves
    /\ LET path == [dir |-> ".", name |-> BatchFilename]
           fs == [i \in 1..Len(batch.allFiles) |-> batch.allFiles[i].file]
           r == ArchiveCBZOp(disk, path, fs, NoFault)
       IN  /\ disk' = r.disk
           /\ batch' = [batch EXCEPT !.pc = "done",
                                     !.err = IF r.err = "nil" THEN "nil"
                                             ELSE "error creating CBZ file",
                                     !.saved = IF r.err = "nil" THEN <<path>> ELSE <<>>]
    /\ UNCHANGED <<conv, call, result, pages, failing, mpc, next, wpc, cpc, guard, wg,
                   errChan, fileChan, fileClosed, done, files, downloadErr, ret,
                   fetchRes, cbActive, cbCount, cbErrCount, firstErr, collected>>

NextMain ==
    \/ ListChapterFails
    \/ BeginDownload
    \/ Next
    \/ AfterDownload
    \/ FinishBatch
    \/ SaveBatch

SpecMain == InitMain /\ [][NextMain]_vars

\* ===================================================================
\* ConvertMultiple and ConvertCBZToMultipleFormats
\* (src/converter/converter_test.go): one goroutine per input or format,
\* admitted through a semaphore channel of capacity MaxConcurrency
\* ===================================================================
\* ------------------------------------------------------------------ bounds
\* most inputs (or formats) handed to one call
MaxConv == 2
\* largest MaxConcurrency explored
MaxSlots == 2

\* the entry of results not yet written (nil)
NoConvResult == [InputFile |-> <<>>, OutputFile |-> <<>>, Success |-> FALSE, Error |-> "unset"]

\* &ConversionResult{InputFile, OutputFile, Success, Error}
ConversionResult(inputFile, outputFile, success, error) ==
    [InputFile |-> inputFile, OutputFile |-> outputFile, Success |-> success, Error |-> error]

\* the input files: two containers in the working directory
CbzA == [dir |-> ".", name |-> <<"a", ".", "c", "b", "z">>]
CbzB == [dir |-> ".", name |-> <<"b", ".", "c", "b", "z">>]
ConvDisk == WriteFile(WriteFile(EmptyDisk, CbzA, OldContent), CbzB, OldContent)

\* the formats asked for: with the dot, without it, and an unsupported one
FormatNames == { <<".", "a", "z", "w", "3">>, <<"e", "p", "u", "b">>, <<".", "t", "x", "t">> }

\* "if !strings.HasPrefix(format, ".") { format = "." + format }"
WithDot(format) == IF format # <<>> /\ format[1] = "." THEN format ELSE <<".">> \o format

\* GetSupportedFormats(): the cases of the switch
SupportedFormats == { <<".", "a", "z", "w", "3">>, <<".", "e", "p", "u", "b">>, <<".", "m", "o", "b", "i">>, <<".", "p", "d", "f">> }

\* the task of goroutine i: the file it converts and the format it converts to
TaskInput(i) == IF conv.mode = "multiple" THEN conv.items[i] ELSE conv.input
TaskFormat(i) == IF conv.mode = "multiple" THEN <<".", "a", "z", "w", "3">> ELSE WithDot(conv.items[i])
TaskOutput(i) == GenerateOutputPath(conv.c, TaskInput(i), TaskFormat(i))

\* A call: mode "multiple" is ConvertMultiple(items, progress), mode
\* "formats" is ConvertCBZToMultipleFormats(input, items, progress); found
\* tells whether checkEbookConvert finds the tool. progress (history) lists
\* the goroutines in the order they reported, lost (history) holds the
\* goroutines whose conversion found the input file gone.
ConvCall(mode, c, items, found) ==
    [pc |-> "entry", mode |-> mode, c |-> c, input |-> CbzA, items |-> items,
     found |-> found, next |-> 1, wpc |-> [i \in 1..Len(items) |-> "idle"],
     semaphore |-> 0, wg |-> 0, results |-> [i \in 1..Len(items) |-> NoConvResult],
     returned |-> FALSE, nilResults |-> TRUE, err |-> "none",
     progress |-> <<>>, lost |-> {}]

ConvCalls ==
    { ConvCall("multiple", [NewConverter EXCEPT !.MaxConcurrency = mc], items, found) :
        mc \in 0..MaxSlots, found \in BOOLEAN,
        items \in UNION { [1..n -> {CbzA, CbzB}] : n \in 0..MaxConv } } \cup
    { ConvCall("formats", [NewConverter EXCEPT !.MaxConcurrency = mc], items, found) :
        mc \in 0..MaxSlots, found \in BOOLEAN,
        items \in UNION { [1..n -> FormatNames] : n \in 0..MaxConv } }

InitConvert ==
    /\ DownloaderIs(NotCalled)
    /\ disk = ConvDisk
    /\ call = NoCall
    /\ result = NoResult
    /\ batch = NoBatch
    /\ conv \in ConvCalls

\* every variable of FetchChapter
downloaderVars ==
    <<pages, failing, mpc, next, wpc, cpc, guard, wg, errChan, fileChan, fileClosed,
      done, files, downloadErr, ret, fetchRes, cbActive, cbCount, cbErrCount,
      firstErr, collected>>

\* "if len(inputFiles) == 0 { return nil, ... }" and
\* "if err := c.checkEbookConvert(); err != nil { return nil, err }";
\* otherwise results, wg and semaphore are made and the loop begins
ConvEnter ==
    /\ conv.pc = "entry"
    /\ conv' = IF Len(conv.items) = 0
               THEN [conv EXCEPT !.pc = "ret", !.returned = TRUE,
                                 !.err = IF conv.mode = "multiple"
                                         THEN "no input files provided"
                                         ELSE "no output formats specified"]
               ELSE IF ~conv.found
               THEN [conv EXCEPT !.pc = "ret", !.returned = TRUE,
                                 !.err = "ebook-convert not found"]
               ELSE [conv EXCEPT !.pc = "launch"]
    /\ UNCHANGED <<downloaderVars, disk, call, result, batch>>

\* one iteration of the loop: wg.Add(1); go func(index, input) {...}(i, inputFile)
ConvLaunch ==
    /\ conv.pc = "launch"
    /\ conv.next <= Len(conv.items)
    /\ conv' = [conv EXCEPT !.wg = @ + 1, !.wpc[conv.next] = "waiting", !.next = @ + 1]
    /\ UNCHANGED <<downloaderVars, disk, call, result, batch>>

\* (mutant) every goroutine is admitted at once
SemaphoreNeverFull(n, capacity) == TRUE

\* "semaphore <- struct{}{}" can proceed: the channel holds fewer than
\* MaxConcurrency tokens (never, for an unbuffered channel nobody receives from)
SemaphoreCanSend(n, capacity) == n < capacity

\* semaphore <- struct{}{}; defer func() { <-semaphore }()
ConvAcquire(i) ==
    /\ i <= Len(conv.items)
    /\ conv.wpc[i] = "waiting"
    /\ SemaphoreCanSend(conv.semaphore, conv.c.MaxConcurrency)
    /\ conv' = [conv EXCEPT !.semaphore = @ + 1, !.wpc[i] = "stat"]
    /\ UNCHANGED <<downloaderVars, disk, call, result, batch>>

\* the conversion function is entered; an unsupported format gets its
\* result at once, a missing input file ends the conversion with
\* "input file does not exist"
ConvStat(i) ==
    /\ i <= Len(conv.items)
    /\ conv.wpc[i] = "stat"
    /\ conv' =
         IF TaskFormat(i) \notin SupportedFormats
         THEN [conv EXCEPT !.wpc[i] = "report",
                           !.results[i] = ConversionResult(TaskInput(i), TaskOutput(i), FALSE,
                                                           "unsupported output format")]
         ELSE IF ~Exists(disk, TaskInput(i))
         THEN [conv EXCEPT !.wpc[i] = "report", !.lost = @ \cup {i},
                           !.results[i] = ConversionResult(TaskInput(i), TaskOutput(i), FALSE,
                                                           "input file does not exist")]
         ELSE [conv EXCEPT !.wpc[i] = "run"]
    /\ UNCHANGED <<downloaderVars, disk, call, result, batch>>

\* results[index] = result
ResultSlot(i) == i

\* the rest of the conversion: ebook-convert runs (it fails when the input
\* file has gone in the meantime), the output is checked and the input file
\* removed; results[index] = result
ConvRun(i) ==
    /\ i <= Len(conv.items)
    /\ conv.wpc[i] = "run"
    /\ \E run \in {"ok", "fail"} :
          LET env == [lookPath |-> TRUE, mkdir |-> TRUE, remove |-> TRUE,
                      run |-> IF Exists(disk, TaskInput(i)) THEN run ELSE "fail"]
              r == IF Exists(disk, TaskInput(i))
                   THEN ConvertOp(disk, conv.c, TaskFormat(i) = <<".", "a", "z", "w", "3">>,
                                  TaskInput(i), TaskOutput(i), env)
                   ELSE ConvResult(FALSE, "ebook-convert failed", "ebook-convert failed",
                                   MkdirAll(disk, TaskOutput(i).dir))
          IN  /\ disk' = r.disk
              /\ conv' = [conv EXCEPT !.wpc[i] = "report",
                                      !.lost = IF Exists(disk, TaskInput(i)) THEN @
                                               ELSE @ \cup {i},
                                      !.results[ResultSlot(i)] =
                                          ConversionResult(TaskInput(i), TaskOutput(i),
                                                           r.Success, r.Error)]
    /\ UNCHANGED <<downloaderVars, call, result, batch>>

\* progress(index+1, len(inputFiles), result); then the deferred
\* "<-semaphore" and wg.Done()
ConvFinish(i) ==
    /\ i <= Len(conv.items)
    /\ conv.wpc[i] = "report"
    /\ conv' = [conv EXCEPT !.wpc[i] = "done", !.semaphore = @ - 1, !.wg = @ - 1,
                            !.progress = Append(@, i)]
    /\ UNCHANGED <<downloaderVars, disk, call, result, batch>>

\* wg.Wait(); return results, nil
ConvReturn ==
    /\ conv.pc = "launch"
    /\ conv.next > Len(conv.items)
    /\ conv.wg = 0
    /\ conv' = [conv EXCEPT !.pc = "ret", !.returned = TRUE, !.nilResults = FALSE,
                            !.err = "nil"]
    /\ UNCHANGED <<downloaderVars, disk, call, result, batch>>

ConvWorker(i) ==
    \/ ConvAcquire(i)
    \/ ConvStat(i)
    \/ ConvRun(i)
    \/ ConvFinish(i)

NextConvert ==
    \/ ConvEnter
    \/ ConvLaunch
    \/ \E i \in 1..MaxConv : ConvWorker(i)
    \/ ConvReturn

SpecConvert == InitConvert /\ [][NextConvert]_vars

\* every goroutine of the call that can take a step eventually takes one;
\* every single conversion terminates
ConvFairness ==
    /\ WF_vars(ConvEnter \/ ConvLaunch \/ ConvReturn)
    /\ \A i \in 1..MaxConv : WF_vars(ConvWorker(i))

SpecConvertLive == InitConvert /\ [][NextConvert]_vars /\ ConvFairness

\* ===================================================================
\* ranges (src/ranges/ranges_test.go) and the chapter selection of
\* fetchChapterRange (src/main.go)
\* ===================================================================
\* ------------------------------------------------------------------ bounds
\* most ranges in one list
MaxRanges == 3
\* largest range bound
MaxBound == 4

\* Range{Begin, End}
Range(begin, end) == [Begin |-> begin, End |-> end]

\* s with the elements at positions i and j exchanged
Swap(s, i, j) == [s EXCEPT ![i] = s[j], ![j] = s[i]]

\* the loops "for i := 0; i < len(sorted)-1; i++ { for j := i + 1; j <
\* len(sorted); j++ { if sorted[i].Begin > sorted[j].Begin { swap } } }",
\* from the positions i, j (counted from 1) on
RECURSIVE ExchangeSort(_, _, _)
ExchangeSort(s, i, j) ==
    IF i >= Len(s) THEN s
    ELSE IF j > Len(s) THEN ExchangeSort(s, i + 1, i + 2)
    ELSE ExchangeSort(IF s[i].Begin > s[j].Begin THEN Swap(s, i, j) ELSE s, i, j + 1)

\* (mutant) only overlapping ranges are joined
OverlapsOnly(current, last) == current.Begin <= last.End

\* "if current.Begin <= last.End+1"
Touches(current, last) == current.Begin <= last.End + 1

\* the loop "for i := 1; i < len(sorted); i++" over the ranges still to visit
RECURSIVE MergeInto(_, _)
MergeInto(merged, rest) ==
    IF rest = <<>> THEN merged
    ELSE
    LET current == Head(rest)
        last == merged[Len(merged)]
    IN  IF Touches(current, last)
        THEN MergeInto([merged EXCEPT ![Len(merged)].End =
                            IF current.End > last.End THEN current.End ELSE last.End],
                       Tail(rest))
        ELSE MergeInto(Append(merged, current), Tail(rest))

\* Merge(ranges): the list returned and the input slice as the call leaves
\* it (the sorting is done on a copy)
Merge(rs) ==
    IF Len(rs) = 0 THEN [merged |-> rs, ranges |-> rs]
    ELSE LET sorted == ExchangeSort(rs, 1, 2)
         IN  [merged |-> MergeInto(<<sorted[1]>>, Tail(sorted)), ranges |-> rs]

\* r.Contains(num)
Contains(r, num) == num >= r.Begin /\ num <= r.End

\* ContainsAny(ranges, num)
ContainsAny(rs, num) == \E k \in 1..Len(rs) : Contains(rs[k], num)

\* (mutant) every chapter in range is selected
SeenNever(seen, number) == FALSE

\* seenChapters[chapter.GetNumber()]
Seen(seen, number) == number \in seen

\* the loop "for _, chapter := range chapters" of fetchChapterRange over the
\* catalog chapters still to visit: selectedChapters and seenChapters
RECURSIVE SelectFrom(_, _, _, _)
SelectFrom(selected, seen, rest, rs) ==
    IF rest = <<>> THEN selected
    ELSE
    LET chapter == Head(rest)
    IN  IF ContainsAny(rs, chapter.Number) /\ ~Seen(seen, chapter.Number)
        THEN SelectFrom(Append(selected, chapter), seen \cup {chapter.Number}, Tail(rest), rs)
        ELSE SelectFrom(selected, seen, Tail(rest), rs)

\* the chapters fetchChapterRange selects, and the error it returns when
\* there are none
SelectChapters(chapters, rs) ==
    LET selected == SelectFrom(<<>>, {}, chapters, rs)
    IN  [selected |-> selected,
         err |-> IF Len(selected) = 0 THEN "no chapters found for range" ELSE "nil"]

\* ------------------------------------------------------------------ Parse
\* longest range string explored
MaxRangeStr == 5

\* strings.Split(str, sep) for a one-character separator
RECURSIVE Split(_, _)
Split(str, sep) ==
    IF \E k \in 1..Len(str) : str[k] = sep
    THEN LET k == CHOOSE x \in 1..Len(str) : str[x] = sep /\ \A y \in 1..(x - 1) : str[y] # sep
         IN  <<SubSeq(str, 1, k - 1)>> \o Split(SubSeq(str, k + 1, Len(str)), sep)
    ELSE <<str>>

\* strings.TrimSpace(str)
RECURSIVE TrimSpace(_)
TrimSpace(str) ==
    IF str = <<>> THEN str
    ELSE IF Head(str) = " " THEN TrimSpace(Tail(str))
    ELSE IF str[Len(str)] = " " THEN TrimSpace(SubSeq(str, 1, Len(str) - 1))
    ELSE str

\* the value of a string of decimal digits; 0 for the empty string
RECURSIVE DigitsValue(_)
DigitsValue(str) ==
    IF str = <<>> THEN 0
    ELSE LET v == CHOOSE n \in 0..9 : <<"0", "1", "2", "3", "4", "5", "6", "7", "8", "9">>[n + 1] = str[Len(str)]
         IN  10 * DigitsValue(SubSeq(str, 1, Len(str) - 1)) + v

RECURSIVE Pow10(_)
Pow10(n) == IF n = 0 THEN 1 ELSE 10 * Pow10(n - 1)

\* float64 values: a number, as its whole part and its fraction counted in
\* units of 10^-MaxRangeStr, or the value that is not a number, with which
\* every comparison is false
Float(whole, frac) == [nan |-> FALSE, whole |-> whole, frac |-> frac]
NaN == [nan |-> TRUE, whole |-> 0, frac |-> 0]

\* strconv.ParseFloat(str, 64) on strings of digits, periods, spaces and
\* letters: a decimal numeral (digits with at most one period and at least
\* one digit) gives its value; "nan"
\* in any letter case gives NaN; everything else is a syntax error
ParseFloat(str) ==
    LET dots == { k \in 1..Len(str) : str[k] = "." }
        digits == { k \in 1..Len(str) : str[k] \in {"0", "1", "2", "3", "4", "5", "6", "7", "8", "9"} }
    IN  IF ToLower(str) = <<"n", "a", "n">> THEN [ok |-> TRUE, val |-> NaN]
        ELSE IF digits = {} \/ Cardinality(dots) > 1 \/ dots \cup digits # 1..Len(str)
        THEN [ok |-> FALSE, val |-> Float(0, 0)]
        ELSE IF dots = {}
        THEN [ok |-> TRUE, val |-> Float(DigitsValue(str), 0)]
        ELSE LET d == CHOOSE k \in dots : TRUE
                 whole == SubSeq(str, 1, d - 1)
                 frac == SubSeq(str, d + 1, Len(str))
             IN  [ok |-> TRUE,
                  val |-> Float(DigitsValue(whole),
                                DigitsValue(frac) * Pow10(MaxRangeStr - Len(frac)))]

\* "begin > end" on float64 values
GreaterThan(a, b) ==
    /\ ~a.nan
    /\ ~b.nan
    /\ a.whole > b.whole \/ (a.whole = b.whole /\ a.frac > b.frac)

\* return nil, err
ParseError(e) == [rngs |-> <<>>, nilList |-> TRUE, err |-> e]

\* the loop "for _, part := range co" of Parse over the parts still to
\* visit; rngs holds the ranges appended so far
RECURSIVE ParseParts(_, _)
ParseParts(co, rngs) ==
    IF co = <<>> THEN [rngs |-> rngs, nilList |-> rngs = <<>>, err |-> "nil"]
    ELSE
    LET part == TrimSpace(Head(co))
        in == Split(part, "-")
        begin == ParseFloat(TrimSpace(in[1]))
        end == IF Len(in) = 2 THEN ParseFloat(TrimSpace(in[2])) ELSE begin
    IN  IF part = <<>> THEN ParseParts(Tail(co), rngs)
        ELSE IF Len(in) > 2 THEN ParseError("invalid range format")
        ELSE IF ~begin.ok THEN ParseError("invalid syntax")
        ELSE IF ~end.ok THEN ParseError("invalid syntax")
        ELSE ParseParts(Tail(co),
                        Append(rngs, IF GreaterThan(begin.val, end.val)
                                     THEN Range(end.val, begin.val)
                                     ELSE Range(begin.val, end.val)))

\* Parse(rnge)
Parse(rnge) ==
    IF rnge = <<>> THEN [rngs |-> <<>>, nilList |-> FALSE, err |-> "nil"]
    ELSE ParseParts(Split(rnge, ","), <<>>)

\* ----------------------------------------------------------------- inputs
\* the characters range strings are built from
RangeAlphabet == {"1", "2", ".", "-", ",", " ", "n", "a"}
RangeStrings == UNION { [1..n -> RangeAlphabet] : n \in 0..MaxRangeStr }

\* the ranges with whole bounds and Begin <= End
WholeRanges == { r \in [Begin : 0..MaxBound, End : 0..MaxBound] : r.Begin <= r.End }
RangeLists == UNION { [1..n -> WholeRanges] : n \in 0..MaxRanges }

\* most chapters in the catalog
MaxCatalog == 4
\* catalog chapters: a number (in quarters) and a language; the catalog lists
\* the same chapter number once per translation
CatalogChapters == { [Number |-> q, Language |-> l] : q \in {4, 6, 8}, l \in {"en", "es"} }
Catalogs == UNION { [1..n -> CatalogChapters] : n \in 0..MaxCatalog }
\* the parsed ranges chapters are selected by (bounds in quarters)
SelectRanges == { <<Range(4, 4)>>, <<Range(4, 8)>>, <<Range(6, 6), Range(4, 4)>>,
                  <<Range(5, 7)>>, <<Range(12, 16)>> }

InitRanges ==
    /\ DownloaderIs(NotCalled)
    /\ disk = EmptyDisk
    /\ call = NoCall
    /\ result = NoResult
    /\ batch = NoBatch
    /\ conv = NoConv

\* a call of ranges.Merge
CallMerge ==
    /\ call.op = "none"
    /\ \E rs \in RangeLists :
          LET r == Merge(rs)
          IN  /\ call' = [op |-> "Merge", ranges |-> rs]
              /\ result' = [err |-> "nil", merged |-> r.merged, ranges |-> r.ranges]
    /\ UNCHANGED <<downloaderVars, disk, batch, conv>>

\* the selection made by a call of fetchChapterRange
CallSelectChapters ==
    /\ call.op = "none"
    /\ \E chapters \in Catalogs, rs \in SelectRanges :
          LET r == SelectChapters(chapters, rs)
          IN  /\ call' = [op |-> "fetchChapterRange", chapters |-> chapters, ranges |-> rs]
              /\ result' = [err |-> r.err, selected |-> r.selected]
    /\ UNCHANGED <<downloaderVars, disk, batch, conv>>

\* a call of ranges.Parse
CallParse ==
    /\ call.op = "none"
    /\ \E rnge \in RangeStrings :
          LET r == Parse(rnge)
          IN  /\ call' = [op |-> "Parse", rnge |-> rnge]
              /\ result' = [err |-> r.err, rngs |-> r.rngs, nilList |-> r.nilList]
    /\ UNCHANGED <<downloaderVars, disk, batch, conv>>

NextRanges ==
    \/ CallMerge
    \/ CallParse
    \/ CallSelectChapters

SpecRanges == InitRanges /\ [][NextRanges]_vars

\* ===================================================================
\* Properties of ArchiveCBZ
\* ===================================================================
Archived == call.op = "ArchiveCBZ"
\* the name ends in ".cbz" in any letter case
EndsInCBZ(nm) ==
    /\ Len(nm) >= 4
    /\ nm[Len(nm) - 3] = "."
    /\ nm[Len(nm) - 2] \in {"c", "C"}
    /\ nm[Len(nm) - 1] \in {"b", "B"}
    /\ nm[Len(nm)] \in {"z", "Z"}
\* the destination after extension canonicalization: the given name, or the
\* given name plus ".cbz" when it does not end in ".cbz"
Destination ==
    IF EndsInCBZ(call.filename.name)
    THEN call.filename
    ELSE [dir |-> call.filename.dir, name |-> call.filename.name \o CBZExt]

\* the number a zero-padded decimal entry name stands for
RECURSIVE DecimalValue(_)
DecimalValue(str) ==
    IF str = <<>> THEN 0
    ELSE LET last == str[Len(str)]
             v == CHOOSE n \in 0..9 : <<"0", "1", "2", "3", "4", "5", "6", "7", "8", "9">>[n + 1] = last
         IN  10 * DecimalValue(SubSeq(str, 1, Len(str) - 1)) + v

\* name is a page number, zero-padded to three digits, plus ".jpg"
NamesPage(name, page) ==
    /\ Len(name) >= 7
    /\ SubSeq(name, Len(name) - 3, Len(name)) = <<".", "j", "p", "g">>
    /\ \A k \in 1..(Len(name) - 4) : name[k] \in {"0", "1", "2", "3", "4", "5", "6", "7", "8", "9"}
    /\ DecimalValue(SubSeq(name, 1, Len(name) - 4)) = page
    /\ (Len(name) > 7 => name[1] # "0")

\* C11: ArchiveCBZ with an empty file list fails with "no files to pack" and
\* changes nothing on disk: no container file and no directory is created.
C11_EmptyListRejected ==
    (Archived /\ call.files = <<>>) =>
        /\ result.err = "no files to pack"
        /\ disk = call.before

\* an empty list was sent to a directory that does not exist yet
C11_Witness ==
    /\ Archived
    /\ call.files = <<>>
    /\ call.filename.dir \notin call.before.dirs

C13_EntriesListedByPage ==
    (Archived /\ result.err = "nil") =>
        LET content == disk.files[Destination]
        IN  \A k \in 1..(Len(content) - 1) :
              DecimalValue(SubSeq(content[k].name, 1, Len(content[k].name) - 4))
                <= DecimalValue(SubSeq(content[k + 1].name, 1, Len(content[k + 1].name) - 4))

\* C14: a successful ArchiveCBZ on a non-empty list writes exactly one entry
\* per input file, named by the file's Page zero-padded to three digits plus
\* ".jpg" (not by its position) and holding the file's Data.
C14_OneEntryPerFile ==
    (Archived /\ result.err = "nil") =>
        LET content == disk.files[Destination]
        IN  /\ call.files # <<>>
            /\ Len(content) = Len(call.files)
            /\ \A i \in 1..Len(call.files) :
                  /\ NamesPage(content[i].name, call.files[i].Page)
                  /\ content[i].data = call.files[i].Data

\* a list whose page numbers differ from its positions, one of them with two
\* digits, was archived
C14_Witness ==
    /\ Archived
    /\ result.err = "nil"
    /\ Len(call.files) = MaxFiles
    /\ call.files[1].Page = 12
    /\ call.files[2].Page = 1
    /\ Exists(disk, Destination)

\* ===================================================================
\* Properties of the filename policy
\* ===================================================================
Named == call.op = "GetCBZFilename"
Sanitized == call.op = "sanitizeFilename"
Forbidden == {"/", "\\", ":", "*", "?", "\"", "<", ">", "|"}
DigitSet == {"0", "1", "2", "3", "4", "5", "6", "7", "8", "9"}

\* str is a decimal numeral without a point
IsWholeNumeral(str) == str # <<>> /\ \A k \in 1..Len(str) : str[k] \in DigitSet
\* str is a decimal numeral with a point followed by exactly one digit
IsOneDecimalNumeral(str) ==
    /\ Len(str) >= 3
    /\ str[Len(str) - 1] = "."
    /\ str[Len(str)] \in DigitSet
    /\ IsWholeNumeral(SubSeq(str, 1, Len(str) - 2))

\* the positions of value at which the text " - " begins
Dashes(value) == {k \in 1..(Len(value) - 2) : SubSeq(value, k, k + 2) = <<" ", "-", " ">>}

\* C17: GetCBZFilename prints an integral chapter number without a decimal
\* point and any other with exactly one decimal digit, appends
\* " - <chapter title>" only when the chapter title is non-empty, and always
\* returns a name ending in ".cbz"; the two examples of the specification
\* come out literally.
C17_FilenameFormat ==
    Named =>
        LET value == result.value
            \* the text between " - Chapter " and the next " - " or the ".cbz"
            start == (CHOOSE k \in Dashes(value) :
                        /\ SubSeq(value, k, k + 10) = <<" ", "-", " ", "C", "h", "a", "p", "t", "e", "r", " ">>
                        /\ \A j \in Dashes(value) : j >= k) + 11
            later == {k \in Dashes(value) : k >= start}
            stop == IF later = {} THEN Len(value) - 4
                    ELSE (CHOOSE k \in later : \A j \in later : j >= k) - 1
            numeral == SubSeq(value, start, stop)
        IN  /\ SubSeq(value, Len(value) - 3, Len(value)) = <<".", "c", "b", "z">>
            /\ IF call.number % 4 = 0
               THEN IsWholeNumeral(numeral) /\ DecimalValue(numeral) = call.number \div 4
               ELSE /\ IsOneDecimalNumeral(numeral)
                    /\ DecimalValue(SubSeq(numeral, 1, Len(numeral) - 2)) = call.number \div 4
            /\ (later # {}) <=> (call.chapterTitle # <<>>)
            /\ (call.title = <<"O", "n", "e", " ", "P", "i", "e", "c", "e">> /\ call.number = 4
                  /\ call.chapterTitle = <<"R", "o", "m", "a", "n", "c", "e", " ", "D", "a", "w", "n">>)
               => value = <<"O", "n", "e", " ", "P", "i", "e", "c", "e", " ", "-", " ", "C", "h", "a", "p", "t", "e", "r", " ", "1", " ", "-", " ", "R", "o", "m", "a", "n", "c", "e", " ", "D", "a", "w", "n", ".", "c", "b", "z">>
            /\ (call.title = <<"X">> /\ call.number = 6 /\ call.chapterTitle = <<>>)
               => value = <<"X", " ", "-", " ", "C", "h", "a", "p", "t", "e", "r", " ", "1", ".", "5", ".", "c", "b", "z">>

\* a non-integral number was printed for a chapter without a title
C17_Witness ==
    /\ Named
    /\ call.number % 4 = 1
    /\ call.chapterTitle = <<>>
    /\ call.title = <<"X">>

\* C18: sanitizeFilename returns at most 200 characters, none of them one of
\* / \ : * ? " < > |; every character it returns is the input's character at
\* that place, or one underscore where the input has such a character.
C18_SanitizedCharacters ==
    Sanitized =>
        /\ Len(result.value) <= 200
        /\ Len(result.value) <= Len(call.input)
        /\ \A k \in 1..Len(result.value) :
              /\ result.value[k] \notin Forbidden
              /\ result.value[k] = IF call.input[k] \in Forbidden THEN "_" ELSE call.input[k]

\* an input longer than 200 characters holding the last of the forbidden
\* characters was cut to 200 characters
C18_Witness ==
    /\ Sanitized
    /\ Len(call.input) > 200
    /\ Len(result.value) = 200
    /\ \E k \in 1..200 : call.input[k] = "|"

\* C19: the result of sanitizeFilename never ends with a space or a period,
\* also when the input is cut to 200 characters.
C19_NoTrailingSpaceOrPeriod ==
    (Sanitized /\ result.value # <<>>) =>
        result.value[Len(result.value)] \notin {" ", "."}

\* ===================================================================
\* Properties of ArchiveMultipleChapters
\* ===================================================================
ArchivedGroups == call.op = "ArchiveMultipleChapters"
\* the container a group is written to: "<title> - Chapter <n>.cbz" in baseDir
GroupPath(k) ==
    [dir |-> call.baseDir,
     name |-> call.titles[k] \o <<" ", "-", " ", "C", "h", "a", "p", "t", "e", "r", " ">> \o
              (IF call.numbers[k] % 4 = 0 THEN Digits(call.numbers[k] \div 4)
               ELSE Digits(call.numbers[k] \div 4) \o <<".", "5">>) \o <<".", "c", "b", "z">>]
\* the groups whose own archiving cannot but fail: the container is there
\* already or the write of its first entry fails
FailingGroups ==
    { k \in DOMAIN call.chapters :
        /\ call.chapters[k] # <<>>
        /\ \/ GroupPath(k) \in DOMAIN call.before.files
           \/ call.faults[k].kind # "none" }

\* C16: when archiving one group fails, the containers of the remaining
\* non-empty groups are still written and the call returns the first error.
C16_ContinuesPastFailedGroup ==
    (ArchivedGroups /\ FailingGroups # {}) =>
        /\ result.err = "failed to archive chapter"
        /\ result.failed = call.order[CHOOSE i \in 1..Len(call.order) :
                              /\ call.order[i] \in FailingGroups
                              /\ \A j \in 1..(i - 1) : call.order[j] \notin FailingGroups]
        /\ \A k \in DOMAIN call.chapters :
              (call.chapters[k] # <<>> /\ k \notin FailingGroups) =>
                  /\ GroupPath(k) \in DOMAIN disk.files
                  /\ Len(disk.files[GroupPath(k)]) = Len(call.chapters[k])

\* ===================================================================
\* Properties of the converter
\* ===================================================================
ConvertedOne == call.op = "Convert"

\* C20: a conversion deletes its source only when DeleteSource is true: after
\* a successful conversion by a Converter with DeleteSource = FALSE the input
\* file is still there.
C20_SourceKeptUnlessDeleteSource ==
    (ConvertedOne /\ result.Success /\ ~call.converter.DeleteSource) =>
        /\ Exists(disk, call.inputFile)
        /\ disk.files[call.inputFile] = call.before.files[call.inputFile]

\* ===================================================================
\* Properties of fetchChapterRange
\* ===================================================================
BatchDone == batch.pc = "done"
\* the selected chapters whose page listing or whose download of some page
\* fails
FailedChapters ==
    { k \in 1..Len(batch.selected) :
        ~batch.selected[k].listing \/ batch.selected[k].failing # {} }

\* C15: in a multi-chapter download a chapter whose page listing or page
\* download fails is skipped and every later selected chapter is still
\* attempted; the batch returns no error and none of the failed chapter's
\* pages are among the collected files.
C15_FailedChapterSkipped ==
    (BatchDone /\ Len(batch.selected) > 1) =>
        /\ batch.attempted = [k \in 1..Len(batch.selected) |-> k]
        /\ batch.err = "nil"
        /\ \A i \in 1..Len(batch.allFiles) : batch.allFiles[i].from \notin FailedChapters

\* the selected chapters whose pages were all downloaded
CompleteChapters == { k \in 1..Len(batch.selected) : k \notin FailedChapters }

\* C23: the number of chapters reported in "Total downloaded: P pages from K
\* chapters", which also decides between the single-chapter file name and
\* the bundle file name, is the number of chapters whose pages were all
\* downloaded: a chapter whose page download failed is not counted.
C23_CountsDownloadedChapters ==
    BatchDone => ReportedChapters = Cardinality(CompleteChapters)

\* the batch has written one container holding more than one chapter
Bundled ==
    /\ BatchDone
    /\ batch.saved # <<>>
    /\ Cardinality({ batch.allFiles[i].from : i \in 1..Len(batch.allFiles) }) > 1

\* C24: when more than one downloaded chapter is saved into one bundled
\* container, every downloaded page is stored under an entry name different
\* from the entry name of every other page.
C24_BundleEntryNamesDistinct ==
    Bundled =>
        LET entries == disk.files[batch.saved[1]]
        IN  /\ Len(entries) = Len(batch.allFiles)
            /\ \A i, j \in 1..Len(entries) : i # j => entries[i].name # entries[j].name

\* ===================================================================
\* Properties of ConvertMultiple and ConvertCBZToMultipleFormats
\* ===================================================================
\* the goroutines holding a semaphore slot: their conversion is running
Converting == { i \in 1..Len(conv.items) : conv.wpc[i] \in {"stat", "run", "report"} }

\* C25: at most MaxConcurrency conversions are running at any instant, the
\* call returns only after every conversion has finished, and results[i] is
\* the result of the i-th input (or format) whatever order the conversions
\* finish in.
C25_BoundedAndOrdered ==
    /\ Cardinality(Converting) <= conv.c.MaxConcurrency
    /\ (conv.returned /\ conv.err = "nil") =>
          \A i \in 1..Len(conv.items) :
             /\ conv.wpc[i] = "done"
             /\ conv.results[i].InputFile = TaskInput(i)
             /\ conv.results[i].OutputFile = TaskOutput(i)

\* two conversions were admitted together, finished in the reverse order and
\* the call has returned
C25_Witness ==
    /\ conv.returned
    /\ conv.c.MaxConcurrency = 2
    /\ conv.progress = <<2, 1>>
    /\ conv.results[1].Success /\ conv.results[2].Success

\* C26: ConvertMultiple and ConvertCBZToMultipleFormats eventually return for
\* every non-empty input list and every non-negative MaxConcurrency,
\* including 0.
C26_EventuallyReturns == (Len(conv.items) > 0) => <>conv.returned

\* C27: ConvertCBZToMultipleFormats converts the one input file to every
\* requested supported format: no conversion fails because the input file
\* no longer exists after a successful conversion to another format.
C27_EveryFormatConverted ==
    (/\ conv.mode = "formats"
     /\ \A i, j \in 1..Len(conv.items) : i # j => TaskFormat(i) # TaskFormat(j))
        => conv.lost = {}

\* ===================================================================
\* Properties of ranges and of the chapter selection
\* ===================================================================
Merged == call.op = "Merge"
\* the whole numbers lying in some range of the list
Covered(rs) == { n \in 0..(MaxBound + 1) : \E k \in 1..Len(rs) : rs[k].Begin <= n /\ n <= rs[k].End }

\* C28: for every list of ranges with whole bounds and Begin <= End, Merge
\* returns a list sorted ascending by Begin in which each Begin is greater
\* than the previous End + 1, a whole number lies in a returned range exactly
\* when it lies in an input range, and the input slice is left unchanged.
C28_MergeNormalizes ==
    Merged =>
        /\ \A k \in 2..Len(result.merged) :
              result.merged[k].Begin > result.merged[k - 1].End + 1
        /\ \A k \in 1..Len(result.merged) :
              /\ result.merged[k].Begin <= result.merged[k].End
              /\ result.merged[k].Begin \in 0..MaxBound
              /\ result.merged[k].End \in 0..MaxBound
        /\ Covered(result.merged) = Covered(call.ranges)
        /\ result.ranges = call.ranges

\* unsorted input with adjacent, overlapping and separate ranges
C28_Witness ==
    /\ Merged
    /\ Len(call.ranges) = 3
    /\ call.ranges[1].Begin > call.ranges[2].Begin
    /\ \E i, j \in 1..3 : call.ranges[j].Begin = call.ranges[i].End + 1
    /\ Len(result.merged) = 2

Selected == call.op = "fetchChapterRange"
\* positions of the catalog chapters whose number lies in some parsed range
\* and does not occur earlier in the catalog
FirstInRange ==
    { k \in 1..Len(call.chapters) :
        /\ \E r \in 1..Len(call.ranges) :
              /\ call.ranges[r].Begin <= call.chapters[k].Number
              /\ call.chapters[k].Number <= call.ranges[r].End
        /\ \A j \in 1..(k - 1) : call.chapters[j].Number # call.chapters[k].Number }
\* the k-th smallest element of a set of positions
RECURSIVE Nth(_, _)
Nth(set, k) ==
    LET least == CHOOSE x \in set : \A y \in set : x <= y
    IN  IF k = 1 THEN least ELSE Nth(set \ {least}, k - 1)

\* C30: the selected chapters are exactly the catalog chapters whose number
\* lies in at least one parsed range, each number's first occurrence only,
\* in catalog order, and no two selected chapters have the same number.
C30_SelectionDeduplicated ==
    Selected =>
        /\ Len(result.selected) = Cardinality(FirstInRange)
        /\ \A k \in 1..Len(result.selected) :
              result.selected[k] = call.chapters[Nth(FirstInRange, k)]
        /\ \A i, j \in 1..Len(result.selected) :
              i # j => result.selected[i].Number # result.selected[j].Number

\* a chapter number in range occurs twice in the catalog and a chapter out
\* of range lies between chapters that are selected
C30_Witness ==
    /\ Selected
    /\ Len(result.selected) = 2
    /\ Len(call.chapters) = 4
    /\ call.chapters[1].Number = call.chapters[3].Number
    /\ call.chapters[1].Language # call.chapters[3].Language
    /\ result.selected[1] = call.chapters[1]
    /\ result.selected[2] = call.chapters[4]

Parsed == call.op = "Parse"
\* the non-empty comma-separated parts of the string, in input order
RECURSIVE NonEmpty(_)
NonEmpty(parts) ==
    IF parts = <<>> THEN <<>>
    ELSE IF TrimSpace(Head(parts)) = <<>> THEN NonEmpty(Tail(parts))
    ELSE <<TrimSpace(Head(parts))>> \o NonEmpty(Tail(parts))
Parts == NonEmpty(Split(call.rnge, ","))
\* the bounds of a part
Bounds(part) == [k \in 1..Len(Split(part, "-")) |-> TrimSpace(Split(part, "-")[k])]
\* a numeric bound: digits with at most one period and at least one digit
Numeric(str) ==
    /\ \A k \in 1..Len(str) : str[k] \in DigitSet \cup {"."}
    /\ \E k \in 1..Len(str) : str[k] \in DigitSet
    /\ Cardinality({ k \in 1..Len(str) : str[k] = "." }) <= 1
\* a part is valid when it has at most one dash and numeric bounds
ValidPart(part) == Len(Bounds(part)) <= 2 /\ \A k \in 1..Len(Bounds(part)) : Numeric(Bounds(part)[k])
\* Begin <= End on float64 values
AtMost(a, b) ==
    /\ ~a.nan
    /\ ~b.nan
    /\ a.whole < b.whole \/ (a.whole = b.whole /\ a.frac <= b.frac)

\* C29: Parse is all-or-nothing and normalizing: it returns an error with a
\* nil list when some part is invalid (more than one dash or a non-numeric
\* bound), otherwise a nil error with one range per non-empty part, in
\* input order, each with Begin <= End: "b-a" gives [a, b], a single
\* number n gives [n, n].
C29_ParseAllOrNothing ==
    Parsed =>
        IF \E k \in 1..Len(Parts) : ~ValidPart(Parts[k])
        THEN result.err # "nil" /\ result.nilList /\ result.rngs = <<>>
        ELSE /\ result.err = "nil"
             /\ Len(result.rngs) = Len(Parts)
             /\ \A k \in 1..Len(Parts) :
                   LET b == Bounds(Parts[k])
                       lo == ParseFloat(b[1]).val
                       hi == ParseFloat(b[Len(b)]).val
                   IN  /\ AtMost(result.rngs[k].Begin, result.rngs[k].End)
                       /\ {result.rngs[k].Begin, result.rngs[k].End} = {lo, hi}

====
